---- MODULE Spec2Model ----
(***************************************************************************)
(* HackingBuddyService (src/unnamed/part_000, lines 430-904): the          *)
(* orchestration engine of the chat-mediated security scan.                *)
(*                                                                         *)
(* The service runs on one JavaScript event loop.  A step of the model is  *)
(* one macrotask: a call of a public method up to its first pending await, *)
(* the firing of the interval timer, the arrival of an HTTP response, or   *)
(* the expiry of a setTimeout, each run to its next pending await.         *)
(***************************************************************************)
EXTENDS Integers, Sequences, FiniteSets, Bags, TLC

VARIABLES
    config,        \* this.config: NoConfig (null) or a Configuration
    listeners,     \* this.eventListeners: three callback lists
    scanInterval,  \* this.scanInterval: 0 (null) or the handle of a timer
    messageId,     \* this.messageId
    timers,        \* the interval timers ever created: handle -> [live, commandIndex]
    ticks,         \* bag of interval callbacks suspended at an await
    sends,         \* bag of sendMessage calls suspended at an await
    tests,         \* bag of testConnection calls suspended at an await
    out,           \* observation: the events published by the last step, in order
    step,          \* observation: what the last step was and how it returned
    scanLog,       \* observation: per timer, the commands its ticks executed
    stopped,       \* observation: a stopScan has returned since the last successful start
    stops,         \* observation: the number of stopScan calls made by callers
    now            \* Date.now(): the millisecond clock, counted from the construction

progVars == <<config, listeners, scanInterval, messageId, timers, ticks, sends, tests>>
vars == <<config, listeners, scanInterval, messageId, timers, ticks, sends, tests,
          out, step, scanLog, stopped, stops, now>>

-----------------------------------------------------------------------------
(* Bounds of the model *)

\* Spec: callbacks registered, over the three event kinds together
MaxListeners == 2
\* Spec: sendMessage and testConnection calls suspended at the same time
MaxCalls == 1
\* Spec: no step starts publishing once messageId has reached this value
MaxMessages == 3
\* SpecOverlap: interval callbacks suspended at the same time
MaxInflight == 2
\* SpecRestart: successful startAutomaticScan calls (timers ever created)
MaxScans == 2
\* SpecRestart: stopScan calls made by callers
MaxStops == 2
\* SpecAnalysis: fenced code blocks in a reply of the model
MaxBlocks == 2
\* SpecAnalysis: no sendMessage call is made once messageId has reached this value
MaxAnalysisMessages == 1
\* SpecMixed: no step starts publishing once messageId has reached this value
MaxMixedMessages == 9
\* SpecSubscribed: callbacks registered after the App has mounted
MaxLateListeners == 1
\* Exhausted ticks counted for a timer; SpecEnds: exhausted ticks of one timer
MaxExhaustedTicks == 2
\* SpecReconfigure: no step starts publishing once messageId has reached this value
MaxReconfigureMessages == 4
\* SpecExport: vulnerabilities in the list handed to exportReport
MaxExported == 3
\* SpecApp: configurations saved in the App component
MaxSaves == 2
\* SpecCommands: no call and no tick begins once messageId has reached this value
MaxCommandMessages == 4
\* SpecClock: the clock is followed up to this reading
MaxClock == 2
\* SpecClock: no step starts publishing once messageId has reached this value
MaxClockMessages == 12
\* SpecOverlap, SpecRestart, SpecSubscribed: no step starts publishing once messageId has
\* reached this value; a whole scan publishes 33 messages
MaxScanMessages == 34

-----------------------------------------------------------------------------
(* Data *)

NoConfig == [set |-> FALSE]

\* An LLMConfiguration, reduced to the fields the requests read.
Llm(model, api_url, api_key, api_path, api_timeout) ==
    [model |-> model, api_url |-> api_url, api_key |-> api_key, api_path |-> api_path,
     api_timeout |-> api_timeout]

\* The llm part of the configuration the App component starts with.
MountedLlm == Llm("gemma2:2b", "", "sk-no-key-needed", "/v1/chat/completions", 240)

\* The llm parts a user saves: a local endpoint, and one with an empty URL and
\* an empty key.
LocalLlm == Llm("llama3", "http://localhost:11434", "sk-local", "/v1/chat/completions", 30)

BlankLlm == Llm("mistral", "", "", "/api/chat", 5)

\* A Configuration, reduced to what the service reads of it: which of the
\* connection fields are non-empty strings, and the llm part.
Cfg(host, hostname, username, password, keyfilename, llm) ==
    [set |-> TRUE, host |-> host, hostname |-> hostname, username |-> username,
     password |-> password, keyfilename |-> keyfilename, llm |-> llm]

\* The configurations a caller hands in: one with every field simulateSSHConnection
\* requires, one without hostname.
Configs ==
    { Cfg(TRUE, TRUE, TRUE, TRUE, FALSE, LocalLlm),
      Cfg(TRUE, FALSE, TRUE, FALSE, TRUE, BlankLlm) }

\* The configuration the App component hands in when it mounts: every
\* connection field is the empty string.
MountedConfig == Cfg(FALSE, FALSE, FALSE, FALSE, FALSE, MountedLlm)

\* The callbacks a caller may register: one that returns and one that throws.
Callbacks == {"cbA", "cbThrow"}

Throws(cb) == cb = "cbThrow"

scanCommands ==
    << "whoami",
       "id",
       "sudo -l",
       "find / -perm -4000 2>/dev/null | head -20",
       "cat /etc/os-release",
       "ps aux | head -10",
       "netstat -tulpn 2>/dev/null | head -10",
       "ls -la /etc/cron* 2>/dev/null",
       "find /var/www -type f -name \"*.php\" 2>/dev/null | head -5",
       "cat /etc/passwd | head -10" >>

-----------------------------------------------------------------------------
(* Strings.  A JavaScript string is a TLA+ string; positions count from 1. *)

CharAt(s, i) == SubSeq(s, i, i)

\* sub occurs in s at position i.
StartsAt(s, sub, i) ==
    /\ i >= 1
    /\ i + Len(sub) - 1 <= Len(s)
    /\ SubSeq(s, i, i + Len(sub) - 1) = sub

\* String.prototype.includes
includes(s, sub) == \E i \in 1..(Len(s) - Len(sub) + 1) : StartsAt(s, sub, i)

UpperCaseLetters == "ABCDEFGHIJKLMNOPQRSTUVWXYZ"

LowerCaseLetters == "abcdefghijklmnopqrstuvwxyz"

LowerChar(c) ==
    IF \E i \in 1..26 : CharAt(UpperCaseLetters, i) = c
    THEN CharAt(LowerCaseLetters, CHOOSE i \in 1..26 : CharAt(UpperCaseLetters, i) = c)
    ELSE c

RECURSIVE toLowerCase(_)
\* String.prototype.toLowerCase, on the ASCII texts of the model.
toLowerCase(s) ==
    IF Len(s) <= 1 THEN LowerChar(s)
    ELSE toLowerCase(SubSeq(s, 1, Len(s) \div 2))
            \o toLowerCase(SubSeq(s, Len(s) \div 2 + 1, Len(s)))

\* The characters "." of a regular expression does not match.
LineTerminator(c) == c \in {"\n", "\r"}

\* The characters \s of a regular expression matches and trim() removes.
WhiteSpace(c) == c \in {" ", "\t", "\n", "\r"}

\* A regular expression of the form /a.*b/ finds a match in s.
MatchDotStar(s, a, b) ==
    \E i \in 1..Len(s) :
        /\ StartsAt(s, a, i)
        /\ \E j \in (i + Len(a))..Len(s) :
              /\ StartsAt(s, b, j)
              /\ \A k \in (i + Len(a))..(j - 1) : ~LineTerminator(CharAt(s, k))

-----------------------------------------------------------------------------
(* Reply analysis: command extraction and keyword search *)

\* String.prototype.trim
RECURSIVE trim(_)
trim(s) ==
    IF s = "" THEN ""
    ELSE IF WhiteSpace(CharAt(s, 1)) THEN trim(SubSeq(s, 2, Len(s)))
    ELSE IF WhiteSpace(CharAt(s, Len(s))) THEN trim(SubSeq(s, 1, Len(s) - 1))
    ELSE s

\* The fence of a code block, three backquotes.  A TLA+ string cannot hold a
\* backquote: the texts of the model write ^ for it.
Fence == "^^^"

\* Position of the first fence of s at or after position i; 0 when there is none.
NextFence(s, i) ==
    IF \E q \in i..Len(s) : StartsAt(s, Fence, q)
    THEN CHOOSE q \in i..Len(s) :
            StartsAt(s, Fence, q) /\ \A r \in i..(q - 1) : ~StartsAt(s, Fence, r)
    ELSE 0

\* (?:bash|shell)? at position p: the length of what it consumes.
TagLength(s, p) ==
    IF StartsAt(s, "bash", p) THEN 4 ELSE IF StartsAt(s, "shell", p) THEN 5 ELSE 0

\* The while loop of analyzeAIResponse: commandRegex.exec(response) from
\* lastIndex on.  A match runs from a fence to the next fence after the tag;
\* \s*(.*?)\s* leaves in the group what lies between without its leading and
\* trailing white space, and the command is the group, trimmed.
RECURSIVE ExecLoop(_, _)
ExecLoop(response, lastIndex) ==
    LET p == NextFence(response, lastIndex)
    IN  IF p = 0 THEN <<>>
        ELSE LET t == p + 3 + TagLength(response, p + 3)
                 q == NextFence(response, t)
             IN  IF q = 0 THEN <<>>
                 ELSE <<trim(trim(SubSeq(response, t, q - 1)))>> \o ExecLoop(response, q + 3)

vulnKeywords ==
    << "vulnerability", "exploit", "privilege escalation", "buffer overflow",
       "sql injection", "xss", "csrf", "directory traversal", "weak password",
       "misconfiguration", "exposed service", "unpatched system" >>

\* The filter of detectVulnerabilitiesFromResponse without toLowerCase().
FilterKeywordsCaseSensitive(response) ==
    SelectSeq(vulnKeywords, LAMBDA keyword : includes(response, keyword))

\* The keywords detectVulnerabilitiesFromResponse finds in a reply.
FilterKeywords(response) ==
    LET lower == toLowerCase(response)
    IN  SelectSeq(vulnKeywords, LAMBDA keyword : includes(lower, keyword))

\* join with ',' in the place of ', '.
RECURSIVE joinComma(_)
joinComma(words) ==
    IF words = <<>> THEN ""
    ELSE IF Len(words) = 1 THEN words[1]
    ELSE words[1] \o "," \o joinComma(Tail(words))

\* Array.prototype.join(', ')
RECURSIVE join(_)
join(words) ==
    IF words = <<>> THEN ""
    ELSE IF Len(words) = 1 THEN words[1]
    ELSE words[1] \o ", " \o join(Tail(words))

-----------------------------------------------------------------------------
(* The command simulator and the detection rules *)

\* The keys of the simulations table.
SimulationKeys ==
    { "id", "whoami", "sudo -l", "find / -perm -4000 2>/dev/null",
      "ls -la /etc/passwd", "cat /etc/os-release", "ps aux" }

\* The output of each key of the simulations table.
simulations ==
    [ key \in SimulationKeys |->
        CASE key = "id" -> "uid=1001(user) gid=1001(user) groups=1001(user)"
          [] key = "whoami" -> "user"
          [] key = "sudo -l" ->
                "User user may run the following commands on target:\n    (ALL) NOPASSWD: /usr/bin/find"
          [] key = "find / -perm -4000 2>/dev/null" ->
                "/usr/bin/passwd\n/usr/bin/sudo\n/usr/bin/find\n/usr/bin/python3"
          [] key = "ls -la /etc/passwd" ->
                "-rw-r--r-- 1 root root 2847 Oct 15 10:30 /etc/passwd"
          [] key = "cat /etc/os-release" ->
                "NAME=\"Ubuntu\"\nVERSION=\"20.04.3 LTS (Focal Fossa)\"\nID=ubuntu\nID_LIKE=debian"
          [] key = "ps aux" ->
                "USER       PID %CPU %MEM    VSZ   RSS TTY      STAT START   TIME COMMAND\nroot         1  0.0  0.1 169404 11084 ?        Ss   Oct15   0:02 /sbin/init\nroot         2  0.0  0.0      0     0 ?        S    Oct15   0:00 [kthreadd]" ]

\* simulations is an object literal: simulations[command] also finds the
\* properties every object inherits from Object.prototype, all of them truthy.
ObjectPrototypeKeys ==
    { "constructor", "toString", "toLocaleString", "valueOf", "hasOwnProperty",
      "isPrototypeOf", "propertyIsEnumerable", "__proto__" }

\* A key of the table the command begins with: "" when there is none.
KeyPrefix(command) ==
    IF \E key \in SimulationKeys : StartsAt(command, key, 1)
    THEN CHOOSE key \in SimulationKeys :
            /\ StartsAt(command, key, 1)
            /\ \A other \in SimulationKeys :
                  StartsAt(command, other, 1) => Len(other) <= Len(key)
    ELSE ""

\* A lookup by the longest key the command begins with.
ResolvePrefix(command) ==
    IF KeyPrefix(command) # ""
    THEN [output |-> simulations[KeyPrefix(command)], exitCode |-> 0]
    ELSE [output |-> "Command '" \o command \o "' executed successfully", exitCode |-> 0]

\* The value the promise of simulateCommandExecution resolves with, read as
\* executeCommand reads it.  An inherited property has neither output nor
\* exitCode: undefined is written "undefined" for the output (the text the
\* templates and regular expressions see) and -1 for the exit code.
Resolve(command) ==
    IF command \in SimulationKeys
    THEN [output |-> simulations[command], exitCode |-> 0]
    ELSE IF command \in ObjectPrototypeKeys
    THEN [output |-> "undefined", exitCode |-> -1]
    ELSE [output |-> "Command '" \o command \o "' executed successfully", exitCode |-> 0]

RuleTitles ==
    << "Sudo Privilege Escalation via find", "SUID Python Binary", "Root Access Achieved" >>

RuleSeverity == << "high", "critical", "critical" >>

\* pattern.test(output) of rule r:
\*  1: /NOPASSWD.*find/i
\*  2: /\/usr\/bin\/python3.*4000/
\*  3: /uid=0\(root\)/
RegExpTest(r, output) ==
    CASE r = 1 -> MatchDotStar(toLowerCase(output), "nopasswd", "find")
      [] r = 2 -> MatchDotStar(output, "/usr/bin/python3", "4000")
      [] r = 3 -> includes(output, "uid=0(root)")

-----------------------------------------------------------------------------
(* The texts of the model.  The functions above are evaluated once for each  *)
(* text that occurs, and the service reads the values from these tables.    *)

\* The replies of the model.  The command "echo uid=0(root)" is no table key:
\* its output quotes it.
Replies ==
    { "",
      "Try an exploit for privilege escalation:\n^^^bash\nsudo -l\n^^^",
      "^^^\nid\n^^^\nthen\n^^^shell\necho uid=0(root)\n^^^" }

\* A reply as the model composes it: some prose, then fenced code blocks.  The
\* opening fence of a block carries no tag or the tag bash or shell and ends
\* its line; the body is a command between some white space; the closing
\* fence stands on a line of its own.
CodeBlock(tag, before, command, after) ==
    [tag |-> tag, before |-> before, command |-> command, after |-> after]

CodeBlocks ==
    { CodeBlock("bash", "", "sudo -l", ""),
      CodeBlock("", "  ", "id", " \n"),
      CodeBlock("shell", "\t", "echo NOPASSWD find uid=0(root)", " "),
      CodeBlock("", "\n", "bash -c id", "\n"),
      CodeBlock("shell", "", "constructor", "") }

\* The prose of a reply, with the vocabulary keywords its text mentions, listed
\* as the description of a finding lists them; "" when it mentions none.
Proses ==
    { [text |-> "", concerns |-> ""],
      [text |-> "This looks like a classic SQL injection and privilege escalation issue.",
       concerns |-> "privilege escalation, sql injection"],
      [text |-> "An Exploit, then another EXPLOIT: CSRF or xss.",
       concerns |-> "exploit, xss, csrf"] }

ReplyStructures ==
    { [prose |-> prose, blocks |-> blocks] :
        prose \in Proses, blocks \in UNION {[1..n -> CodeBlocks] : n \in 0..MaxBlocks} }

BlockText(block) ==
    Fence \o block.tag \o "\n" \o block.before \o block.command \o block.after
          \o "\n" \o Fence

RECURSIVE BlocksText(_)
BlocksText(blocks) ==
    IF blocks = <<>> THEN ""
    ELSE "\n" \o BlockText(Head(blocks)) \o BlocksText(Tail(blocks))

\* The text of a reply.
Render(structure) == structure.prose.text \o BlocksText(structure.blocks)

RenderTable == [structure \in ReplyStructures |-> Render(structure)]

\* SpecAnalysis: the replies of the model.
AnalysisReplies == {RenderTable[structure] : structure \in ReplyStructures}

ReplyTexts == Replies \cup AnalysisReplies

CommandsTable == [response \in ReplyTexts |-> ExecLoop(response, 1)]

\* The commands analyzeAIResponse extracts from a reply.
Commands(response) == CommandsTable[response]

KeywordsTable == [response \in ReplyTexts |-> FilterKeywords(response)]

foundKeywords(response) == KeywordsTable[response]

CommandTexts ==
    {scanCommands[i] : i \in DOMAIN scanCommands}
        \cup UNION {{Commands(response)[i] : i \in DOMAIN Commands(response)} :
                        response \in ReplyTexts}

ResultTable == [command \in CommandTexts |-> Resolve(command)]

simulateCommandExecution(command) == ResultTable[command]

OutputTexts == {ResultTable[command].output : command \in CommandTexts}

TestTable == [output \in OutputTexts |-> [r \in DOMAIN RuleTitles |-> RegExpTest(r, output)]]

PatternTest(r, output) == TestTable[output][r]

-----------------------------------------------------------------------------
(* Requests to the LLM endpoint *)

\* The path alone, as a client with a base URL of its own is given it.
ApiPathOnly(cfg) == cfg.llm.api_path

\* The URL the three callers post to: api_url followed by api_path.
ApiUrl(cfg) == cfg.llm.api_url \o cfg.llm.api_path

\* The arguments of axios.post that depend on the configuration or differ
\* between the three callers; timeout is in milliseconds.
Post(cfg, max_tokens, timeout) ==
    [url |-> ApiUrl(cfg), model |-> cfg.llm.model, max_tokens |-> max_tokens,
     authorization |-> "Bearer " \o cfg.llm.api_key, timeout |-> timeout]

\* timeout: this.config.llm.api_timeout * 1000
ApiTimeout(cfg) == cfg.llm.api_timeout * 1000

\* The request of testConnection.
TestRequest(cfg) == Post(cfg, 5, 10000)

\* The request of sendMessage.
SendRequest(cfg) == Post(cfg, 2000, ApiTimeout(cfg))

\* The advisory request of the interval callback.
AdvisoryRequest(cfg) == Post(cfg, 200, ApiTimeout(cfg))

-----------------------------------------------------------------------------
(* Event publication.  A step publishes several events one after another;   *)
(* e is the running state of the step: the message counter, the events     *)
(* published so far, whether an exception is propagating, and the clock:   *)
(* what Date.now() returns next and the milliseconds that pass between one *)
(* reading of it and the next within the step.                              *)

EmissionIn(mid, lapse) ==
    [mid |-> mid, out |-> <<>>, ok |-> TRUE, now |-> now, lapse |-> lapse]

\* A step that runs within one millisecond.
Emission(mid) == EmissionIn(mid, 0)

\* The milliseconds that may pass between two readings of the clock in a step.
Lapses == {0, 1}

\* The exception was caught by an enclosing catch.
Caught(e) == [e EXCEPT !.ok = TRUE]

\* A statement of the step threw.
Raise(e) == [e EXCEPT !.ok = FALSE]

\* Position of the first callback of subs that throws, 0 when none does.
FirstThrow(subs) ==
    IF \E i \in 1..Len(subs) : Throws(subs[i])
    THEN CHOOSE i \in 1..Len(subs) :
            Throws(subs[i]) /\ \A j \in 1..(i - 1) : ~Throws(subs[j])
    ELSE 0

\* Array.prototype.forEach over the callback list: calls in index order and
\* stops at the first callback that throws; the exception propagates.
ForEach(subs) ==
    IF FirstThrow(subs) = 0 THEN subs ELSE SubSeq(subs, 1, FirstThrow(subs))

Publish(e, subs, event) ==
    [e EXCEPT !.out = Append(@, [event |-> event, subs |-> subs, called |-> ForEach(subs)]),
              !.ok = FirstThrow(subs) = 0]

NextMessageId(mid) == mid + 1

DecimalDigits == "0123456789"

\* Number.prototype.toString of a non-negative integer.
RECURSIVE NumberToString(_)
NumberToString(n) ==
    IF n < 10 THEN CharAt(DecimalDigits, n + 1)
    ELSE NumberToString(n \div 10) \o CharAt(DecimalDigits, (n % 10) + 1)

\* emitMessage with "this.messageId++" in the place of "++this.messageId".
emitMessagePostIncrement(e, message) ==
    IF ~e.ok THEN e
    ELSE LET full == [kind |-> "message", id |-> NumberToString(e.mid),
                      sender |-> message.sender, type |-> message.type,
                      content |-> message.content, metadata |-> message.metadata]
         IN  [e EXCEPT !.mid = e.mid + 1,
                       !.out = Append(@, [event |-> full, subs |-> listeners.onMessage,
                                          called |-> listeners.onMessage])]

emitMessage(e, message) ==
    IF ~e.ok THEN e
    ELSE LET id == NextMessageId(e.mid)
             full == [kind |-> "message", id |-> NumberToString(id), sender |-> message.sender,
                      type |-> message.type, content |-> message.content,
                      metadata |-> message.metadata]
         IN  Publish([e EXCEPT !.mid = id], listeners.onMessage, full)

emitVulnerability(e, vulnerability) ==
    IF ~e.ok THEN e
    ELSE Publish([e EXCEPT !.now = e.now + e.lapse], listeners.onVulnerabilityFound,
                 [kind |-> "vulnerability", id |-> NumberToString(e.now),
                  vulnerability |-> vulnerability])

emitStatusChange(e, status) ==
    IF ~e.ok THEN e
    ELSE Publish(e, listeners.onStatusChange, [kind |-> "status", status |-> status])

\* The vulnerabilities among the events o, in order.
Published(o) ==
    LET found == SelectSeq(o, LAMBDA ev : ev.event.kind = "vulnerability")
    IN  [i \in DOMAIN found |-> found[i].event.vulnerability]

Message(sender, type, tag, arg, metadata) ==
    [sender |-> sender, type |-> type, content |-> [tag |-> tag, arg |-> arg],
     metadata |-> metadata]

AffectedComponent == IF config.set /\ config.host THEN "host" ELSE "Target System"

RECURSIVE RuleLoop(_, _, _, _)
\* The for loop of analyzeCommandResult from rule r on.
RuleLoop(e, r, command, output) ==
    IF r > Len(RuleTitles) THEN e
    ELSE IF PatternTest(r, output)
         THEN LET e1 == emitVulnerability(e,
                           [title |-> RuleTitles[r], severity |-> RuleSeverity[r],
                            category |-> "Privilege Escalation",
                            affectedComponent |-> AffectedComponent,
                            evidence |-> <<command, output>>])
                  e2 == emitMessage(e1, Message("system", "vulnerability",
                                                "VULNERABILITY DETECTED", RuleTitles[r], {}))
              IN  RuleLoop(e2, r + 1, command, output)
         ELSE RuleLoop(e, r + 1, command, output)

analyzeCommandResult(e, command, output) ==
    IF ~e.ok THEN e ELSE RuleLoop(e, 1, command, output)

\* executeCommand up to its await of simulateCommandExecution.
executeCommandBegin(e, command) ==
    IF ~e.ok \/ ~config.set THEN e
    ELSE emitMessage(e, Message("system", "command", "Executing command", command,
                                {[command |-> command]}))

\* executeCommand from the resolution of simulateCommandExecution on.
executeCommandEnd(e, command) ==
    LET result == simulateCommandExecution(command)
        e1 == emitMessage(e, Message("system", "result", "", result.output,
                                     {[command |-> command,
                                       exitCode |-> result.exitCode]}))
    IN  analyzeCommandResult(e1, command, result.output)

-----------------------------------------------------------------------------
(* stopScan and startAutomaticScan *)

ClearInterval(ts, handle) ==
    [t \in DOMAIN ts |-> IF t = handle THEN [ts[t] EXCEPT !.live = FALSE] ELSE ts[t]]

\* The timers after the if-block of stopScan.
StopScanTimers == IF scanInterval # 0 THEN ClearInterval(timers, scanInterval) ELSE timers

\* stopScan publishing a whole SystemStatus in the place of the delta.
StopScanEmitSystemStatus(e) ==
    emitMessage(emitStatusChange(e, [connected |-> FALSE, scanning |-> FALSE,
                                     lastScan |-> "now", vulnerabilitiesFound |-> 0]),
                Message("system", "text", "Automatic scan completed.", "", {}))

\* The emissions of stopScan.
StopScanEmit(e) ==
    emitMessage(emitStatusChange(e, [scanning |-> FALSE]),
                Message("system", "text", "Automatic scan completed.", "", {}))

Ret(e) == IF e.ok THEN "ok" ELSE "SubscriberError"

\* stopScan forgetting the configuration as it resets the scan.
StopScanForgetsConfiguration ==
    /\ LET e == StopScanEmit(Emission(messageId))
       IN  /\ timers' = StopScanTimers
           /\ scanInterval' = 0
           /\ messageId' = e.mid
           /\ out' = e.out
           /\ step' = [act |-> "stopScan", ret |-> Ret(e)]
           /\ stopped' = TRUE
           /\ stops' = stops + 1
           /\ config' = NoConfig
    /\ UNCHANGED <<now, listeners, ticks, sends, tests, scanLog>>

\* A caller calls stopScan().
StopScan ==
    /\ LET e == StopScanEmit(Emission(messageId))
       IN  /\ timers' = StopScanTimers
           /\ scanInterval' = 0
           /\ messageId' = e.mid
           /\ out' = e.out
           /\ step' = [act |-> "stopScan", ret |-> Ret(e)]
           /\ stopped' = TRUE
           /\ stops' = stops + 1
    /\ UNCHANGED <<now, config, listeners, ticks, sends, tests, scanLog>>

NewTimer == [live |-> TRUE, commandIndex |-> 0]

\* What is observed of a scan: the commands executed, the cursor of the last
\* one, the exhausted ticks, the configuration the scan was started under, and
\* the vulnerabilities its ticks have published.
NewScanLog ==
    [executed |-> 0, last |-> 0, exhausted |-> 0, config |-> config, findings |-> <<>>]

\* The timers after "this.scanInterval = setInterval(...)".
SetInterval(ts) == Append(ts, NewTimer)

\* startAutomaticScan after its configuration check.
StartScanConfigured ==
    LET e1 == emitStatusChange(Emission(messageId), [scanning |-> TRUE, lastScan |-> "now"])
        e2 == emitMessage(e1, Message("system", "text",
                                      "Starting automatic security scan...", "", {}))
    IN  /\ messageId' = e2.mid
        /\ out' = e2.out
        /\ step' = [act |-> "startAutomaticScan", ret |-> Ret(e2)]
        /\ IF e2.ok
           THEN /\ timers' = SetInterval(timers)
                /\ scanInterval' = Len(timers) + 1
                /\ scanLog' = Append(scanLog, NewScanLog)
                /\ stopped' = FALSE
           ELSE UNCHANGED <<timers, scanInterval, scanLog, stopped>>
        /\ UNCHANGED <<now, config, listeners, ticks, sends, tests, stops>>

\* startAutomaticScan without the check of this.config.
StartScanUnchecked == StartScanConfigured

\* A caller calls startAutomaticScan().
StartScan ==
    IF ~config.set
    THEN /\ step' = [act |-> "startAutomaticScan", ret |-> "NotConfigured"]
         /\ out' = <<>>
         /\ UNCHANGED <<now, progVars, scanLog, stopped, stops>>
    ELSE StartScanConfigured

-----------------------------------------------------------------------------
(* The interval callback *)

Exhausted(t) == timers[t].commandIndex >= Len(scanCommands)

\* Timer t fires with the cursor past the end: the callback awaits stopScan.
TickExhausted(t) ==
    /\ timers[t].live
    /\ Exhausted(t)
    /\ LET e == StopScanEmit(Emission(messageId))
       IN  /\ timers' = StopScanTimers
           /\ scanInterval' = 0
           /\ messageId' = e.mid
           /\ out' = e.out
           /\ step' = [act |-> "tick", ret |-> IF e.ok THEN "stopped" ELSE "unhandled",
                       timer |-> t]
           /\ stopped' = TRUE
           /\ scanLog' = [scanLog EXCEPT ![t].exhausted =
                                            IF @ < MaxExhaustedTicks THEN @ + 1 ELSE @]
    /\ UNCHANGED <<now, config, listeners, ticks, sends, tests, stops>>

\* An interval callback of timer t suspended at an await: the cursor it read
\* when it began, where it waits, and how its advisory request ended.
Tick(t, i, pc, advice) == [timer |-> t, index |-> i, pc |-> pc, advice |-> advice]

\* Timer t fires: the callback reads the cursor and posts the advisory request.
TickBegin(t) ==
    /\ timers[t].live
    /\ ~Exhausted(t)
    /\ ticks' = ticks (+) SetToBag({Tick(t, timers[t].commandIndex, "advisory", "none")})
    /\ out' = <<>>
    /\ step' = [act |-> "tick", ret |-> "pending", timer |-> t,
                request |-> AdvisoryRequest(config)]
    /\ UNCHANGED <<now, config, listeners, scanInterval, messageId, timers, sends, tests,
                   scanLog, stopped, stops>>

\* The content of no answer.
NoReply == ""

\* What the LLM endpoint may answer to a request:
\*   "content"    status 200, choices[0].message.content a string
\*   "nocontent"  status 200, choices[0].message without content
\*   "nochoices"  status 200, a body without choices
\*   "s2xx"       a 2xx status other than 200 (axios resolves), body without choices
\*   "status"     a status outside 2xx (axios rejects, error.response set)
\*   "refused"    no connection (axios rejects, code ECONNREFUSED)
\*   "timeout"    the client timeout expired (axios rejects)
LLMOutcomes == {"content", "nocontent", "nochoices", "s2xx", "status", "refused", "timeout"}

\* axios.post rejects.
Rejects(o) == o \in {"status", "refused", "timeout"}

\* Reading response.data.choices[0].message.content throws a TypeError.
NoMessage(o) == o \in {"nochoices", "s2xx"}

\* The try/catch of the interval callback, from the answer on: reply is the
\* content of the answer when it has one.
AdvisoryEmit(e, o, reply, command) ==
    LET e1 == IF Rejects(o) \/ NoMessage(o) THEN Raise(e)
              ELSE emitMessage(e, Message("assistant", "text", "advice",
                                          IF o = "content" THEN reply ELSE "undefined", {}))
    IN  IF e1.ok THEN e1
        ELSE emitMessage(Caught(e1),
                         Message("system", "error", "Failed to get AI analysis for command",
                                 command, {}))

IncrementIndex(ts, t) == [ts EXCEPT ![t].commandIndex = @ + 1]

\* The advisory request of tick tk is answered with o, carrying reply when o is
\* "content"; the callback runs up to the await inside executeCommand.
TickAdvisoryReply(tk, o, reply) ==
    /\ tk.pc = "advisory"
    /\ o = "content" \/ reply = NoReply
    /\ LET command == scanCommands[tk.index + 1]
           advice == IF Rejects(o) \/ NoMessage(o) THEN "failed" ELSE "ok"
           e1 == AdvisoryEmit(Emission(messageId), o, reply, command)
           e2 == executeCommandBegin(e1, command)
           done(ret) == [act |-> "tick.advisory", ret |-> ret, timer |-> tk.timer,
                         index |-> tk.index, advice |-> advice, reply |-> reply]
       IN  /\ messageId' = e2.mid
           /\ out' = e2.out
           /\ IF ~e2.ok
              THEN /\ ticks' = ticks (-) SetToBag({tk})
                   /\ step' = done("unhandled")
                   /\ UNCHANGED <<timers, scanLog>>
              ELSE IF ~config.set
              THEN /\ ticks' = ticks (-) SetToBag({tk})
                   /\ step' = done("done")
                   /\ timers' = IncrementIndex(timers, tk.timer)
                   /\ UNCHANGED scanLog
              ELSE /\ ticks' = (ticks (-) SetToBag({tk}))
                                 (+) SetToBag({Tick(tk.timer, tk.index, "exec", advice)})
                   /\ step' = done("pending")
                   /\ scanLog' = [scanLog EXCEPT ![tk.timer] =
                                    [@ EXCEPT !.executed = @ + 1, !.last = tk.index]]
                   /\ UNCHANGED timers
    /\ UNCHANGED <<now, config, listeners, scanInterval, sends, tests, stopped, stops>>

\* The advisory request of tick tk is answered with o, with the empty text as
\* content when it has one.
TickAdvisoryDone(tk, o) == TickAdvisoryReply(tk, o, NoReply)

\* The simulated command of tick tk resolves; the callback runs to its end,
\* lapse milliseconds passing between one reading of the clock and the next.
TickExecDoneIn(tk, lapse) ==
    /\ tk.pc = "exec"
    /\ LET e == executeCommandEnd(EmissionIn(messageId, lapse), scanCommands[tk.index + 1])
       IN  /\ messageId' = e.mid
           /\ now' = e.now
           /\ out' = e.out
           /\ ticks' = ticks (-) SetToBag({tk})
           /\ step' = [act |-> "tick.exec", ret |-> IF e.ok THEN "done" ELSE "unhandled",
                       timer |-> tk.timer, index |-> tk.index, advice |-> tk.advice]
           /\ timers' = IF e.ok THEN IncrementIndex(timers, tk.timer) ELSE timers
           /\ scanLog' = [scanLog EXCEPT ![tk.timer].findings = @ \o Published(e.out)]
    /\ UNCHANGED <<config, listeners, scanInterval, sends, tests, stopped, stops>>

\* The same within one millisecond.
TickExecDone(tk) == TickExecDoneIn(tk, 0)

-----------------------------------------------------------------------------
(* sendMessage *)

detectVulnerabilitiesFromResponse(e, response) ==
    IF ~e.ok \/ foundKeywords(response) = <<>> THEN e
    ELSE emitVulnerability(e,
            [title |-> "Potential Security Issue Identified", severity |-> "medium",
             category |-> "Analysis", affectedComponent |-> AffectedComponent,
             description |-> "AI analysis suggests potential security concerns: "
                                \o join(foundKeywords(response)),
             evidence |-> <<response>>])

\* A sendMessage call suspended at an await: where it waits, the reply it read,
\* the command it waits for, the events it has published and the commands
\* whose executeCommand has returned.
Send(pc, reply, k, emitted, ran) ==
    [pc |-> pc, reply |-> reply, k |-> k, emitted |-> emitted, ran |-> ran]

\* A caller calls sendMessage(content); content only travels in the request.
SendMessage ==
    /\ out' = <<>>
    /\ IF ~config.set
       THEN /\ step' = [act |-> "sendMessage", ret |-> "NotConfigured"]
            /\ UNCHANGED sends
       ELSE /\ step' = [act |-> "sendMessage", ret |-> "pending",
                        request |-> SendRequest(config)]
            /\ sends' = sends (+) SetToBag({Send("llm", NoReply, 0, 0, <<>>)})
    /\ UNCHANGED <<now, config, listeners, scanInterval, messageId, timers, ticks, tests,
                   scanLog, stopped, stops>>

\* How a step of sendMessage that ran to e leaves the call s: suspended at the
\* next await (next is the command it waits for), returned, or failed with the
\* wrapping error of the catch block.  The step records how the request ended
\* (llm) and whether analyzeAIResponse has been entered.
SendStep(s, e, reply, next, ran, act, llm, entered) ==
    LET emitted == s.emitted + Len(e.out)
        done(ret) == [act |-> act, ret |-> ret, emitted |-> emitted, llm |-> llm,
                      entered |-> entered, reply |-> reply, ran |-> ran]
    IN  /\ messageId' = e.mid
        /\ now' = e.now
        /\ out' = e.out
        /\ IF ~e.ok
           THEN /\ sends' = sends (-) SetToBag({s})
                /\ step' = done("UpstreamError")
           ELSE IF next = 0
           THEN /\ sends' = sends (-) SetToBag({s})
                /\ step' = done("ok")
           ELSE /\ sends' = (sends (-) SetToBag({s}))
                               (+) SetToBag({Send("exec", reply, next, emitted, ran)})
                /\ step' = done("pending")

\* analyzeAIResponse with the keyword search ahead of the commands.
AnalyzeFromKeywordsFirst(e, reply, k) ==
    LET e1 == IF k = 1 THEN detectVulnerabilitiesFromResponse(e, reply) ELSE e
    IN  IF k <= Len(Commands(reply)) THEN executeCommandBegin(e1, Commands(reply)[k]) ELSE e1

\* analyzeAIResponse from command k of the reply on, up to the next await.
AnalyzeFrom(e, reply, k) ==
    IF k <= Len(Commands(reply))
    THEN executeCommandBegin(e, Commands(reply)[k])
    ELSE detectVulnerabilitiesFromResponse(e, reply)

\* The command analyzeAIResponse waits for after AnalyzeFrom(e, reply, k); 0: none.
\* executeCommand returns at once while no configuration is set.
RECURSIVE AwaitedFrom(_, _)
AwaitedFrom(reply, k) ==
    IF k > Len(Commands(reply)) THEN 0
    ELSE IF config.set THEN k
    ELSE AwaitedFrom(reply, k + 1)

\* The request of call s is answered with o, carrying reply when o is "content";
\* lapse milliseconds pass between one reading of the clock and the next.
SendResponseIn(s, o, reply, lapse) ==
    /\ s.pc = "llm"
    /\ o = "content" \/ reply = NoReply
    /\ LET e0 == EmissionIn(messageId, lapse)
           e1 == IF Rejects(o) \/ NoMessage(o) THEN Raise(e0)
                 ELSE emitMessage(e0, Message("assistant", "text", "",
                                              IF o = "content" THEN reply ELSE "undefined", {}))
           \* o = "nocontent": the regular expression finds nothing in "undefined"
           \* and undefined.toLowerCase() throws a TypeError
           e2 == IF o = "nocontent" /\ e1.ok THEN Raise(e1)
                 ELSE AnalyzeFrom(e1, reply, 1)
       IN  SendStep(s, e2, reply, IF e2.ok THEN AwaitedFrom(reply, 1) ELSE 0, <<>>,
                    "sendMessage.response", o, e1.ok)
    /\ UNCHANGED <<config, listeners, scanInterval, timers, ticks, tests,
                   scanLog, stopped, stops>>

\* The same within one millisecond.
SendResponse(s, o, reply) == SendResponseIn(s, o, reply, 0)

\* The simulated command of call s resolves; lapse milliseconds pass between one
\* reading of the clock and the next.
SendExecDoneIn(s, lapse) ==
    /\ s.pc = "exec"
    /\ LET command == Commands(s.reply)[s.k]
           e1 == executeCommandEnd(EmissionIn(messageId, lapse), command)
           e2 == AnalyzeFrom(e1, s.reply, s.k + 1)
       IN  SendStep(s, e2, s.reply, IF e2.ok THEN AwaitedFrom(s.reply, s.k + 1) ELSE 0,
                    IF e1.ok THEN Append(s.ran, command) ELSE s.ran, "sendMessage.exec",
                    "content", TRUE)
    /\ UNCHANGED <<config, listeners, scanInterval, timers, ticks, tests,
                   scanLog, stopped, stops>>

\* The same within one millisecond.
SendExecDone(s) == SendExecDoneIn(s, 0)

\* A millisecond passes between two steps.
Elapse ==
    /\ now < MaxClock
    /\ now' = now + 1
    /\ UNCHANGED <<progVars, out, step, scanLog, stopped, stops>>

-----------------------------------------------------------------------------
(* testConnection *)

\* hasRequiredFields of simulateSSHConnection.
HasRequiredFields(cfg) ==
    cfg.host /\ cfg.username /\ cfg.hostname /\ (cfg.password \/ cfg.keyfilename)

\* A caller calls testConnection().
TestConnection ==
    /\ out' = <<>>
    /\ IF ~config.set
       THEN /\ step' = [act |-> "testConnection", ret |-> "NotConfigured"]
            /\ UNCHANGED tests
       ELSE /\ step' = [act |-> "testConnection", ret |-> "pending",
                        request |-> TestRequest(config)]
            /\ tests' = tests (+) SetToBag({[pc |-> "llm"]})
    /\ UNCHANGED <<now, config, listeners, scanInterval, messageId, timers, ticks, sends,
                   scanLog, stopped, stops>>

\* The catch block of testConnection: the statement after "throw" is dead code.
TestCatch(e) == Raise(e)

\* How testConnection returns after publishing {connected: sshTest}.
TestReturn(e, sshTest) ==
    IF e.ok THEN (IF sshTest THEN "true" ELSE "false") ELSE "Error"

\* The request of call t is answered with o.
TestResponse(t, o) ==
    /\ t.pc = "llm"
    /\ LET e0 == Emission(messageId)
           failed == Rejects(o) \/ o = "s2xx"
       IN  IF failed
           THEN LET e1 == TestCatch(e0)
                IN  /\ out' = e1.out
                    /\ step' = [act |-> "testConnection.response",
                                ret |-> TestReturn(e1, FALSE), llm |-> "failed"]
                    /\ tests' = tests (-) SetToBag({t})
           ELSE IF config.set /\ HasRequiredFields(config)
           THEN /\ out' = <<>>
                /\ step' = [act |-> "testConnection.response", ret |-> "pending",
                            llm |-> "ok"]
                /\ tests' = (tests (-) SetToBag({t})) (+) SetToBag({[pc |-> "ssh"]})
           ELSE LET e1 == emitStatusChange(e0, [connected |-> FALSE])
                    e2 == IF e1.ok THEN e1 ELSE TestCatch(Caught(e1))
                IN  /\ out' = e2.out
                    /\ step' = [act |-> "testConnection.response",
                                ret |-> TestReturn(e2, FALSE), llm |-> "ok"]
                    /\ tests' = tests (-) SetToBag({t})
    /\ UNCHANGED <<now, config, listeners, scanInterval, messageId, timers, ticks, sends,
                   scanLog, stopped, stops>>

\* The promise of simulateSSHConnection of call t resolves with true.
TestSshDone(t) ==
    /\ t.pc = "ssh"
    /\ LET e1 == emitStatusChange(Emission(messageId), [connected |-> TRUE])
           e2 == IF e1.ok THEN e1 ELSE TestCatch(Caught(e1))
       IN  /\ out' = e2.out
           /\ step' = [act |-> "testConnection.ssh", ret |-> TestReturn(e2, TRUE),
                       llm |-> "ok"]
           /\ tests' = tests (-) SetToBag({t})
    /\ UNCHANGED <<now, config, listeners, scanInterval, messageId, timers, ticks, sends,
                   scanLog, stopped, stops>>

-----------------------------------------------------------------------------
(* Configuration and subscription *)

onConfigurationUpdate(cfg) ==
    /\ config' = cfg
    /\ out' = <<>>
    /\ step' = [act |-> "onConfigurationUpdate", ret |-> "ok", cfg |-> cfg]
    /\ UNCHANGED <<now, listeners, scanInterval, messageId, timers, ticks, sends, tests,
                   scanLog, stopped, stops>>

onMessage(cb) ==
    /\ listeners' = [listeners EXCEPT !.onMessage = Append(@, cb)]
    /\ out' = <<>>
    /\ step' = [act |-> "onMessage", ret |-> "ok"]
    /\ UNCHANGED <<now, config, scanInterval, messageId, timers, ticks, sends, tests,
                   scanLog, stopped, stops>>

onVulnerabilityFound(cb) ==
    /\ listeners' = [listeners EXCEPT !.onVulnerabilityFound = Append(@, cb)]
    /\ out' = <<>>
    /\ step' = [act |-> "onVulnerabilityFound", ret |-> "ok"]
    /\ UNCHANGED <<now, config, scanInterval, messageId, timers, ticks, sends, tests,
                   scanLog, stopped, stops>>

onStatusChange(cb) ==
    /\ listeners' = [listeners EXCEPT !.onStatusChange = Append(@, cb)]
    /\ out' = <<>>
    /\ step' = [act |-> "onStatusChange", ret |-> "ok"]
    /\ UNCHANGED <<now, config, scanInterval, messageId, timers, ticks, sends, tests,
                   scanLog, stopped, stops>>

-----------------------------------------------------------------------------
(* exportReport *)

Severities == {"low", "medium", "high", "critical"}

\* A Vulnerability of the caller's list, reduced to its id and its severity.
Vulnerability(id, severity) == [id |-> id, severity |-> severity]

\* The vulnerabilities a caller may hold.
Vulnerabilities ==
    { Vulnerability("1", "low"), Vulnerability("2", "medium"), Vulnerability("3", "high"),
      Vulnerability("4", "critical"), Vulnerability("5", "critical") }

\* 1 when the list holds an entry of the severity, 0 otherwise.
SeverityPresent(vulnerabilities, severity) ==
    IF \E i \in DOMAIN vulnerabilities : vulnerabilities[i].severity = severity THEN 1 ELSE 0

\* vulnerabilities.filter(v => v.severity === severity).length
SeverityCount(vulnerabilities, severity) ==
    Len(SelectSeq(vulnerabilities, LAMBDA v : v.severity = severity))

\* this.config?.connection.host
Target == IF ~config.set THEN "undefined" ELSE IF config.host THEN "host" ELSE ""

\* The report object of exportReport.
Report(vulnerabilities) ==
    [generatedAt |-> "now",
     target |-> Target,
     vulnerabilities |-> vulnerabilities,
     summary |-> [total |-> Len(vulnerabilities),
                  critical |-> SeverityCount(vulnerabilities, "critical"),
                  high |-> SeverityCount(vulnerabilities, "high"),
                  medium |-> SeverityCount(vulnerabilities, "medium"),
                  low |-> SeverityCount(vulnerabilities, "low")]]

\* A caller calls exportReport(vulnerabilities): the report is serialised and
\* handed to the browser as the download security-report-<date>.json.
exportReport(vulnerabilities) ==
    /\ out' = <<>>
    /\ step' = [act |-> "exportReport", ret |-> "ok", input |-> vulnerabilities,
                download |-> Report(vulnerabilities)]
    /\ UNCHANGED <<now, config, listeners, scanInterval, messageId, timers, ticks, sends, tests,
                   scanLog, stopped, stops>>

-----------------------------------------------------------------------------
(* The App component (src/unnamed/part_001): it owns the service, hands it    *)
(* the configuration and keeps the lists of what the service publishes.     *)

\* The callbacks the effect of the App registers: each appends what it is
\* handed to the state of the component.
AppCallback == "cbA"

\* The configurations ConfigurationPanel saves: validateConfiguration asks for
\* host, hostname, username, and a password or a key file.
SavedConfigs ==
    { Cfg(TRUE, TRUE, TRUE, TRUE, FALSE, LocalLlm),
      Cfg(TRUE, TRUE, TRUE, FALSE, TRUE, LocalLlm) }

\* The listeners after the effect of the App has run once more.
EffectListeners ==
    [kind \in DOMAIN listeners |-> Append(listeners[kind], AppCallback)]

\* The panel saves newConfig: handleConfigurationSave sets the state of the
\* component and hands newConfig to the service; when the configuration has
\* changed, React renders again and runs the effect, which hands it in once
\* more and registers three callbacks.
handleConfigurationSave(newConfig) ==
    /\ config' = newConfig
    /\ listeners' = IF newConfig # config THEN EffectListeners ELSE listeners
    /\ out' = <<>>
    /\ step' = [act |-> "handleConfigurationSave", ret |-> "ok",
                effect |-> newConfig # config]
    /\ UNCHANGED <<now, scanInterval, messageId, timers, ticks, sends, tests,
                   scanLog, stopped, stops>>

\* How many times the App appends the published event ev to its list (and, for
\* a vulnerability, adds one to vulnerabilitiesFound): once for each of its
\* callbacks that is called.
Appended(ev) == Cardinality({i \in DOMAIN ev.called : ev.called[i] = AppCallback})

-----------------------------------------------------------------------------
(* Specifications *)

NoListeners == [onMessage |-> <<>>, onVulnerabilityFound |-> <<>>, onStatusChange |-> <<>>]

\* The state after "new HackingBuddyService()".
Init ==
    /\ config = NoConfig
    /\ listeners = NoListeners
    /\ scanInterval = 0
    /\ messageId = 0
    /\ timers = <<>>
    /\ ticks = EmptyBag
    /\ sends = EmptyBag
    /\ tests = EmptyBag
    /\ out = <<>>
    /\ step = [act |-> "constructor", ret |-> "ok"]
    /\ scanLog = <<>>
    /\ stopped = FALSE
    /\ stops = 0
    /\ now = 0

Registrations ==
    Len(listeners.onMessage) + Len(listeners.onVulnerabilityFound)
        + Len(listeners.onStatusChange)

CanRegister == Registrations < MaxListeners

CanCall == BagCardinality(sends) + BagCardinality(tests) < MaxCalls

Room == messageId < MaxMessages

\* The public methods and the continuations of sendMessage and testConnection;
\* the interval timer of a started scan does not fire.
Next ==
    \/ \E cfg \in Configs : onConfigurationUpdate(cfg)
    \/ \E cb \in Callbacks : CanRegister /\ onMessage(cb)
    \/ \E cb \in Callbacks : CanRegister /\ onVulnerabilityFound(cb)
    \/ \E cb \in Callbacks : CanRegister /\ onStatusChange(cb)
    \/ CanCall /\ TestConnection
    \/ \E t \in BagToSet(tests) : \E o \in LLMOutcomes : TestResponse(t, o)
    \/ \E t \in BagToSet(tests) : TestSshDone(t)
    \/ CanCall /\ SendMessage
    \/ \E s \in BagToSet(sends) : \E o \in LLMOutcomes : \E reply \in Replies :
            Room /\ SendResponse(s, o, reply)
    \/ \E s \in BagToSet(sends) : Room /\ SendExecDone(s)
    \/ Room /\ timers = <<>> /\ StartScan
    \/ Room /\ stops < MaxStops /\ StopScan

Spec == Init /\ [][Next]_vars

\* The state after the App component has mounted: its effect has handed in a
\* configuration and registered one callback of each kind.
InitMounted ==
    /\ config = MountedConfig
    /\ listeners = [onMessage |-> <<"cbA">>, onVulnerabilityFound |-> <<"cbA">>,
                    onStatusChange |-> <<"cbA">>]
    /\ scanInterval = 0
    /\ messageId = 0
    /\ timers = <<>>
    /\ ticks = EmptyBag
    /\ sends = EmptyBag
    /\ tests = EmptyBag
    /\ out = <<>>
    /\ step = [act |-> "mounted", ret |-> "ok"]
    /\ scanLog = <<>>
    /\ stopped = FALSE
    /\ stops = 0
    /\ now = 0

ScanRoom == messageId < MaxScanMessages

\* One scan that no caller stops: its interval callbacks may overlap.
NextOverlap ==
    \/ ScanRoom /\ timers = <<>> /\ StartScan
    \/ \E t \in DOMAIN timers : ScanRoom /\ TickExhausted(t)
    \/ \E t \in DOMAIN timers : BagCardinality(ticks) < MaxInflight /\ TickBegin(t)
    \/ \E tk \in BagToSet(ticks) : \E o \in LLMOutcomes : ScanRoom /\ TickAdvisoryDone(tk, o)
    \/ \E tk \in BagToSet(ticks) : ScanRoom /\ TickExecDone(tk)

SpecOverlap == InitMounted /\ [][NextOverlap]_vars

\* Scans started and stopped by callers at any time: a timer fires only after
\* the previous interval callback has run to its end.
NextRestart ==
    \/ ScanRoom /\ Len(timers) < MaxScans /\ StartScan
    \/ ScanRoom /\ stops < MaxStops /\ StopScan
    \/ \E t \in DOMAIN timers : ScanRoom /\ TickExhausted(t)
    \/ \E t \in DOMAIN timers : ticks = EmptyBag /\ TickBegin(t)
    \/ \E tk \in BagToSet(ticks) : \E o \in LLMOutcomes : ScanRoom /\ TickAdvisoryDone(tk, o)
    \/ \E tk \in BagToSet(ticks) : ScanRoom /\ TickExecDone(tk)

SpecRestart == InitMounted /\ [][NextRestart]_vars

MixedRoom == messageId < MaxMixedMessages

\* The first ticks of one scan, interleaved with sendMessage calls and with
\* stopScan calls: the bound on the messages ends a run before the cursor of
\* the scan reaches the end of scanCommands.
NextMixed ==
    \/ CanCall /\ SendMessage
    \/ \E s \in BagToSet(sends) : \E o \in LLMOutcomes : \E reply \in Replies :
            MixedRoom /\ SendResponse(s, o, reply)
    \/ \E s \in BagToSet(sends) : MixedRoom /\ SendExecDone(s)
    \/ MixedRoom /\ timers = <<>> /\ StartScan
    \/ MixedRoom /\ stops < MaxStops /\ StopScan
    \/ \E t \in DOMAIN timers : BagCardinality(ticks) < MaxInflight /\ TickBegin(t)
    \/ \E tk \in BagToSet(ticks) : \E o \in LLMOutcomes : MixedRoom /\ TickAdvisoryDone(tk, o)
    \/ \E tk \in BagToSet(ticks) : MixedRoom /\ TickExecDone(tk)

SpecMixed == InitMounted /\ [][NextMixed]_vars

LateRoom == Registrations < 3 + MaxLateListeners

\* sendMessage calls made one after the other, each answered with a reply
\* composed of prose and code blocks, while callers register further callbacks
\* for the events sendMessage publishes.
NextAnalysis ==
    \/ \E cb \in Callbacks : LateRoom /\ onMessage(cb)
    \/ \E cb \in Callbacks : LateRoom /\ onVulnerabilityFound(cb)
    \/ messageId < MaxAnalysisMessages /\ sends = EmptyBag /\ SendMessage
    \/ \E s \in BagToSet(sends) : \E o \in LLMOutcomes : \E reply \in AnalysisReplies :
            SendResponse(s, o, reply)
    \/ \E s \in BagToSet(sends) : SendExecDone(s)

SpecAnalysis == InitMounted /\ [][NextAnalysis]_vars

\* One scan, its interval callbacks one after the other, while callers
\* register further callbacks.
NextSubscribed ==
    \/ \E cb \in Callbacks : LateRoom /\ onMessage(cb)
    \/ \E cb \in Callbacks : LateRoom /\ onVulnerabilityFound(cb)
    \/ \E cb \in Callbacks : LateRoom /\ onStatusChange(cb)
    \/ ScanRoom /\ timers = <<>> /\ StartScan
    \/ \E t \in DOMAIN timers : ScanRoom /\ TickExhausted(t)
    \/ \E t \in DOMAIN timers : ScanRoom /\ ticks = EmptyBag /\ TickBegin(t)
    \/ \E tk \in BagToSet(ticks) : \E o \in LLMOutcomes : ScanRoom /\ TickAdvisoryDone(tk, o)
    \/ \E tk \in BagToSet(ticks) : ScanRoom /\ TickExecDone(tk)

SpecSubscribed == InitMounted /\ [][NextSubscribed]_vars

\* A service used from its construction on: configurations handed in at any
\* time, calls of the public methods before and after the first of them, one
\* scan with its interval callbacks one after the other.
NextLifecycle ==
    \/ \E cfg \in Configs : onConfigurationUpdate(cfg)
    \/ CanCall /\ TestConnection
    \/ \E t \in BagToSet(tests) : \E o \in LLMOutcomes : TestResponse(t, o)
    \/ \E t \in BagToSet(tests) : TestSshDone(t)
    \/ CanCall /\ SendMessage
    \/ \E s \in BagToSet(sends) : \E o \in LLMOutcomes : \E reply \in Replies :
            MixedRoom /\ SendResponse(s, o, reply)
    \/ \E s \in BagToSet(sends) : MixedRoom /\ SendExecDone(s)
    \/ MixedRoom /\ timers = <<>> /\ StartScan
    \/ MixedRoom /\ stops < MaxStops /\ StopScan
    \/ \E t \in DOMAIN timers : MixedRoom /\ ticks = EmptyBag /\ TickBegin(t)
    \/ \E tk \in BagToSet(ticks) : \E o \in LLMOutcomes : MixedRoom /\ TickAdvisoryDone(tk, o)
    \/ \E tk \in BagToSet(ticks) : MixedRoom /\ TickExecDone(tk)

SpecLifecycle == Init /\ [][NextLifecycle]_vars

\* The effects the App has run since it mounted.
Saves == Len(listeners.onMessage) - 1

\* The App in use: configurations saved at any time, sendMessage calls one
\* after the other, one scan with its interval callbacks one after the other.
NextApp ==
    \/ \E newConfig \in SavedConfigs : Saves < MaxSaves /\ handleConfigurationSave(newConfig)
    \/ MixedRoom /\ sends = EmptyBag /\ SendMessage
    \/ \E s \in BagToSet(sends) : \E o \in LLMOutcomes : \E reply \in Replies :
            MixedRoom /\ SendResponse(s, o, reply)
    \/ \E s \in BagToSet(sends) : MixedRoom /\ SendExecDone(s)
    \/ MixedRoom /\ timers = <<>> /\ StartScan
    \/ \E t \in DOMAIN timers : MixedRoom /\ ticks = EmptyBag /\ TickBegin(t)
    \/ \E tk \in BagToSet(ticks) : \E o \in LLMOutcomes : MixedRoom /\ TickAdvisoryDone(tk, o)
    \/ \E tk \in BagToSet(ticks) : MixedRoom /\ TickExecDone(tk)

SpecApp == InitMounted /\ [][NextApp]_vars

CommandRoom == messageId < MaxCommandMessages

\* The replies of the model under SpecCommands: one whose command is a key of
\* the simulations table and matches a rule, and one whose command names a
\* property of Object.prototype.
CommandReplies ==
    { "Try an exploit for privilege escalation:\n^^^bash\nsudo -l\n^^^",
      RenderTable[[prose |-> [text |-> "", concerns |-> ""],
                   blocks |-> <<CodeBlock("shell", "", "constructor", "")>>]] }

\* sendMessage calls, the ticks of one scan and stopScan calls in any
\* interleaving, while callers register further callbacks.  The bound on the
\* messages holds back new calls and new ticks only: what has begun runs on.
NextCommands ==
    \/ \E cb \in Callbacks : LateRoom /\ onMessage(cb)
    \/ CommandRoom /\ CanCall /\ SendMessage
    \/ \E s \in BagToSet(sends) : \E o \in LLMOutcomes : \E reply \in CommandReplies :
            SendResponse(s, o, reply)
    \/ \E s \in BagToSet(sends) : SendExecDone(s)
    \/ CommandRoom /\ timers = <<>> /\ StartScan
    \/ stops < MaxStops /\ StopScan
    \/ \E t \in DOMAIN timers :
            CommandRoom /\ BagCardinality(ticks) < MaxInflight /\ TickBegin(t)
    \/ \E tk \in BagToSet(ticks) : \E o \in LLMOutcomes : TickAdvisoryDone(tk, o)
    \/ \E tk \in BagToSet(ticks) : TickExecDone(tk)

\* The timeout of simulateCommandExecution expires for every command, and
\* every request is answered.
FairCommands ==
    /\ WF_vars(\E s \in BagToSet(sends) : \E o \in LLMOutcomes : \E reply \in CommandReplies :
                    SendResponse(s, o, reply))
    /\ WF_vars(\E s \in BagToSet(sends) : SendExecDone(s))
    /\ WF_vars(\E tk \in BagToSet(ticks) : \E o \in LLMOutcomes : TickAdvisoryDone(tk, o))
    /\ WF_vars(\E tk \in BagToSet(ticks) : TickExecDone(tk))

SpecCommands == InitMounted /\ [][NextCommands]_vars /\ FairCommands

ClockRoom == messageId < MaxClockMessages

\* The replies of the model under SpecClock: one whose command matches one rule
\* and whose prose mentions keywords, and one whose command matches two rules.
ClockReplies ==
    { "Try an exploit for privilege escalation:\n^^^bash\nsudo -l\n^^^",
      RenderTable[[prose |-> [text |-> "", concerns |-> ""],
                   blocks |-> <<CodeBlock("shell", "\t", "echo NOPASSWD find uid=0(root)",
                                          " ")>>]] }

\* sendMessage calls one after the other and the first ticks of one scan, while
\* the clock runs: between two steps and between two readings within a step.
NextClock ==
    \/ Elapse
    \/ ClockRoom /\ sends = EmptyBag /\ SendMessage
    \/ \E s \in BagToSet(sends) : \E o \in LLMOutcomes : \E reply \in ClockReplies :
            \E lapse \in Lapses :
                ClockRoom /\ (lapse = 0 \/ now < MaxClock) /\ SendResponseIn(s, o, reply, lapse)
    \/ \E s \in BagToSet(sends) : \E lapse \in Lapses :
            ClockRoom /\ (lapse = 0 \/ now < MaxClock) /\ SendExecDoneIn(s, lapse)
    \/ ClockRoom /\ timers = <<>> /\ StartScan
    \/ \E t \in DOMAIN timers : ClockRoom /\ ticks = EmptyBag /\ TickBegin(t)
    \/ \E tk \in BagToSet(ticks) : \E o \in LLMOutcomes : ClockRoom /\ TickAdvisoryDone(tk, o)
    \/ \E tk \in BagToSet(ticks) : \E lapse \in Lapses :
            ClockRoom /\ (lapse = 0 \/ now < MaxClock) /\ TickExecDoneIn(tk, lapse)

SpecClock == InitMounted /\ [][NextClock]_vars

\* A timer that stays live past the end of scanCommands fires for ever; the
\* model follows it for MaxExhaustedTicks exhausted ticks.
IdleRoom(t) == scanLog[t].exhausted < MaxExhaustedTicks

\* Scans started and stopped by callers a finite number of times; nothing
\* else limits the ticks.
NextEnds ==
    \/ Len(timers) < MaxScans /\ StartScan
    \/ stops < MaxStops /\ StopScan
    \/ \E t \in DOMAIN timers : IdleRoom(t) /\ TickExhausted(t)
    \/ \E t \in DOMAIN timers : ticks = EmptyBag /\ TickBegin(t)
    \/ \E tk \in BagToSet(ticks) : \E o \in LLMOutcomes : TickAdvisoryDone(tk, o)
    \/ \E tk \in BagToSet(ticks) : TickExecDone(tk)

\* Every live timer keeps firing, every advisory request is answered and every
\* simulated command resolves.
FairEnds ==
    /\ \A t \in 1..MaxScans :
          /\ SF_vars(t \in DOMAIN timers /\ IdleRoom(t) /\ TickExhausted(t))
          /\ SF_vars(t \in DOMAIN timers /\ ticks = EmptyBag /\ TickBegin(t))
    /\ WF_vars(\E tk \in BagToSet(ticks) : \E o \in LLMOutcomes : TickAdvisoryDone(tk, o))
    /\ WF_vars(\E tk \in BagToSet(ticks) : TickExecDone(tk))

SpecEnds == InitMounted /\ [][NextEnds]_vars /\ FairEnds

\* One scan, its interval callbacks one after the other, the advisory requests
\* answered with replies that hold code blocks and keywords, while callers
\* register further callbacks.
NextScripted ==
    \/ \E cb \in Callbacks : LateRoom /\ onMessage(cb)
    \/ \E cb \in Callbacks : LateRoom /\ onVulnerabilityFound(cb)
    \/ ScanRoom /\ timers = <<>> /\ StartScan
    \/ \E t \in DOMAIN timers : ScanRoom /\ TickExhausted(t)
    \/ \E t \in DOMAIN timers : ScanRoom /\ ticks = EmptyBag /\ TickBegin(t)
    \/ \E tk \in BagToSet(ticks) : \E o \in LLMOutcomes : \E reply \in Replies :
            ScanRoom /\ TickAdvisoryReply(tk, o, reply)
    \/ \E tk \in BagToSet(ticks) : ScanRoom /\ TickExecDone(tk)

SpecScripted == InitMounted /\ [][NextScripted]_vars

\* One scan run to its end or stopped by a caller, its interval callbacks one
\* after the other, while the user saves configurations and tests the
\* connection.
NextStatus ==
    \/ \E cfg \in Configs : onConfigurationUpdate(cfg)
    \/ CanCall /\ TestConnection
    \/ \E t \in BagToSet(tests) : \E o \in LLMOutcomes : TestResponse(t, o)
    \/ \E t \in BagToSet(tests) : TestSshDone(t)
    \/ ScanRoom /\ timers = <<>> /\ StartScan
    \/ ScanRoom /\ stops < MaxStops /\ StopScan
    \/ \E t \in DOMAIN timers : ScanRoom /\ TickExhausted(t)
    \/ \E t \in DOMAIN timers : ScanRoom /\ ticks = EmptyBag /\ TickBegin(t)
    \/ \E tk \in BagToSet(ticks) : \E o \in LLMOutcomes : ScanRoom /\ TickAdvisoryDone(tk, o)
    \/ \E tk \in BagToSet(ticks) : ScanRoom /\ TickExecDone(tk)

SpecStatus == InitMounted /\ [][NextStatus]_vars

ReconfigureRoom == messageId < MaxReconfigureMessages

\* The user saves configurations while testConnection and sendMessage calls
\* and the first ticks of a scan are under way.
NextReconfigure ==
    \/ \E cfg \in Configs : onConfigurationUpdate(cfg)
    \/ CanCall /\ TestConnection
    \/ \E t \in BagToSet(tests) : \E o \in LLMOutcomes : TestResponse(t, o)
    \/ \E t \in BagToSet(tests) : TestSshDone(t)
    \/ CanCall /\ SendMessage
    \/ \E s \in BagToSet(sends) : \E o \in LLMOutcomes : \E reply \in Replies :
            ReconfigureRoom /\ SendResponse(s, o, reply)
    \/ \E s \in BagToSet(sends) : ReconfigureRoom /\ SendExecDone(s)
    \/ ReconfigureRoom /\ timers = <<>> /\ StartScan
    \/ \E t \in DOMAIN timers : ticks = EmptyBag /\ TickBegin(t)
    \/ \E tk \in BagToSet(ticks) : \E o \in LLMOutcomes :
            ReconfigureRoom /\ TickAdvisoryDone(tk, o)
    \/ \E tk \in BagToSet(ticks) : ReconfigureRoom /\ TickExecDone(tk)

SpecReconfigure == InitMounted /\ [][NextReconfigure]_vars

\* Every way of leaving connection fields empty, with one llm part.
ConnectionConfigs ==
    { Cfg(host, hostname, username, password, keyfilename, LocalLlm) :
        host \in BOOLEAN, hostname \in BOOLEAN, username \in BOOLEAN,
        password \in BOOLEAN, keyfilename \in BOOLEAN }

\* testConnection calls made one after the other from a mounted App whose
\* user edits the connection fields, while callers register further
\* callbacks for status deltas.
NextConnection ==
    \/ \E cfg \in ConnectionConfigs : onConfigurationUpdate(cfg)
    \/ \E cb \in Callbacks : LateRoom /\ onStatusChange(cb)
    \/ CanCall /\ TestConnection
    \/ \E t \in BagToSet(tests) : \E o \in LLMOutcomes : TestResponse(t, o)
    \/ \E t \in BagToSet(tests) : TestSshDone(t)

SpecConnection == InitMounted /\ [][NextConnection]_vars

\* The lists of vulnerabilities a caller hands to exportReport.
ExportLists == UNION {[1..n -> Vulnerabilities] : n \in 0..MaxExported}

\* Reports exported from a mounted App whose configuration the user edits.
NextExport ==
    \/ \E cfg \in Configs : onConfigurationUpdate(cfg)
    \/ \E vulnerabilities \in ExportLists : exportReport(vulnerabilities)

SpecExport == InitMounted /\ [][NextExport]_vars

-----------------------------------------------------------------------------
(* Properties *)

LiveTimers == {t \in DOMAIN timers : timers[t].live}

TicksOf(t) == {tk \in BagToSet(ticks) : tk.timer = t}

StatusEvents(o, status) ==
    {i \in DOMAIN o : o[i].event.kind = "status" /\ o[i].event.status = status}

\* C1: in a single scan that no caller stops, the k-th command executed is the
\* k-th command of scanCommands (each executed once, in list order), and
\* {scanning:false} is published once, after the last command has finished.
C1_ScanRunsEachCommandOnceInOrder ==
    (Len(timers) = 1 /\ stops = 0) =>
        /\ scanLog[1].executed > 0 => scanLog[1].last = scanLog[1].executed - 1
        /\ scanLog[1].exhausted <= 1
        /\ scanLog[1].exhausted = 1 =>
              /\ scanLog[1].executed = Len(scanCommands)
              /\ TicksOf(1) = {}

\* C2: in every reachable state at most one interval timer is live.
C2_AtMostOneLiveTimer == Cardinality(LiveTimers) <= 1

\* C3: once a stopScan has returned, no interval callback starts before the
\* next successful startAutomaticScan.
C3_NoTickAfterStop ==
    [][stopped => ~(\E t \in DOMAIN timers : TickBegin(t) \/ TickExhausted(t))]_vars

\* What one stopScan publishes: {scanning:false}, then 'Automatic scan completed.'.
StopOutput(o) ==
    /\ Len(o) = 2
    /\ o[1].event = [kind |-> "status", status |-> [scanning |-> FALSE]]
    /\ o[2].event.kind = "message"
    /\ o[2].event.content.tag = "Automatic scan completed."

\* C4: two stopScan calls in a row both return normally, each publishes one
\* {scanning:false} and then one completion message, and no timer is live after.
C4_StopScanTwice ==
    [][(step.act = "stopScan" /\ StopScan) =>
          /\ step.ret = "ok" /\ step'.ret = "ok"
          /\ StopOutput(out) /\ StopOutput(out')
          /\ \A t \in DOMAIN timers' : ~timers'[t].live]_vars

\* C5: while no configuration is set, a call of testConnection, sendMessage or
\* startAutomaticScan fails with NotConfigured, publishes nothing and leaves
\* the service as it was: no request, no timer, the same messageId.
C5_NotConfiguredHasNoEffect ==
    [][(~config.set /\ (TestConnection \/ SendMessage \/ StartScan)) =>
          /\ step'.ret = "NotConfigured"
          /\ out' = <<>>
          /\ UNCHANGED progVars]_vars

\* C5 witness: startAutomaticScan has failed with NotConfigured in a service
\* that has subscribers and has already published messages.
C5_Witness ==
    /\ ~config.set
    /\ step = [act |-> "startAutomaticScan", ret |-> "NotConfigured"]
    /\ messageId > 0
    /\ Registrations > 0

SendSteps == {"sendMessage.response", "sendMessage.exec"}

\* C6: a sendMessage call that ends in failure has published nothing.
C6_FailedSendPublishedNothing ==
    (step.act \in SendSteps /\ step.ret = "UpstreamError") => step.emitted = 0

TestSteps == {"testConnection.response", "testConnection.ssh"}

\* C7: with a configuration set, testConnection resolves to a boolean whatever
\* the LLM endpoint answers.
C7_TestConnectionNeverThrows ==
    step.act \in TestSteps => step.ret \in {"pending", "true", "false"}

\* C8: when the LLM request of testConnection fails, {connected:false} has been
\* published by the time testConnection finishes.
C8_FailedTestPublishesDisconnected ==
    (step.act = "testConnection.response" /\ step.llm = "failed") =>
        StatusEvents(out, [connected |-> FALSE]) # {}

\* C9: when a callback throws during a publication, every callback registered
\* after it is still called for that event.
C9_LaterSubscribersStillCalled ==
    \A i \in DOMAIN out :
        \A j \in DOMAIN out[i].subs :
            Throws(out[i].subs[j]) =>
                \A k \in (j + 1)..Len(out[i].subs) : k \in DOMAIN out[i].called

\* The number a string of decimal digits denotes.
RECURSIVE DecimalValue(_)
DecimalValue(s) ==
    LET last == CHOOSE d \in 0..9 : CharAt("0123456789", d + 1) = CharAt(s, Len(s))
    IN  IF Len(s) = 1 THEN last ELSE 10 * DecimalValue(SubSeq(s, 1, Len(s) - 1)) + last

Count(cb, subs) == Cardinality({i \in DOMAIN subs : subs[i] = cb})

\* C10: every event is handed, within the step that publishes it, to the
\* callbacks registered at that moment, in registration order, a callback
\* registered k times being called k times; and the messages of a step are
\* published in the order of their ids.
C10_DeliveredToAllInOrder ==
    /\ \A i \in DOMAIN out :
          /\ \A cb \in Callbacks : Count(cb, out[i].called) = Count(cb, out[i].subs)
          /\ \A j \in DOMAIN out[i].called : out[i].called[j] = out[i].subs[j]
    /\ \A i, j \in DOMAIN out :
          (i < j /\ out[i].event.kind = "message" /\ out[j].event.kind = "message")
              => DecimalValue(out[i].event.id) < DecimalValue(out[j].event.id)

\* A published event is the message m of the given sender and type.
IsMessage(ev, sender, type) ==
    ev.event.kind = "message" /\ ev.event.sender = sender /\ ev.event.type = type

\* C11: when the advisory request of a tick fails, the tick publishes one system
\* message of type 'error', then runs its command: the command message, then
\* the result message and the analysis, and the cursor of its timer moves on by
\* one; nothing is thrown out of the tick and no timer is cancelled.
C11_AdvisoryFailureDoesNotAbort ==
    [][/\ (step'.act = "tick.advisory" /\ step'.advice = "failed") =>
              /\ step'.ret = "pending"
              /\ Len(out') = 2
              /\ IsMessage(out'[1], "system", "error")
              /\ IsMessage(out'[2], "system", "command")
              /\ out'[2].event.content.arg = scanCommands[step'.index + 1]
              /\ timers' = timers
       /\ (step'.act = "tick.exec" /\ step'.advice = "failed") =>
              /\ step'.ret = "done"
              /\ IsMessage(out'[1], "system", "result")
              /\ timers' = IncrementIndex(timers, step'.timer)]_vars

\* C12: a tick that finds the cursor of its timer at or past the end of
\* scanCommands executes no command, cancels the timer that fired it and
\* publishes {scanning:false}, then 'Automatic scan completed.'; a cancelled
\* timer never fires again.
C12_ExhaustionCancelsItsTimer ==
    [][/\ (step'.act = "tick" /\ step'.ret # "pending") =>
              /\ Exhausted(step'.timer)
              /\ ~timers'[step'.timer].live
              /\ StopOutput(out')
              /\ scanLog'[step'.timer].executed = scanLog[step'.timer].executed
              /\ ticks' = ticks
       /\ \A t \in DOMAIN timers :
              ~timers[t].live => ~(TickBegin(t) \/ TickExhausted(t))]_vars

\* The number of interval callbacks of timer t suspended at an await.
InFlight(t) == BagCardinality([tk \in TicksOf(t) |-> CopiesIn(tk, ticks)])

\* C13: at most one tick of a scan is in flight at any time.
C13_OneTickInFlight == \A t \in DOMAIN timers : InFlight(t) <= 1

\* A string is the decimal numeral of a positive integer.
IsNumeral(s) ==
    /\ Len(s) >= 1
    /\ \A i \in 1..Len(s) : \E d \in 0..9 : CharAt("0123456789", d + 1) = CharAt(s, i)
    /\ CharAt(s, 1) # "0"

\* The ids of the messages among the events o, in the order of publication.
MessageIdsOf(o) ==
    LET messages == SelectSeq(o, LAMBDA ev : ev.event.kind = "message")
    IN  [i \in DOMAIN messages |-> messages[i].event.id]

\* C14: the ids of the messages are the decimal numerals of 1, 2, 3, ... in the
\* order of publication: the i-th message a step publishes has the id
\* messageId + i, where messageId counts the messages published before the
\* step, whatever sendMessage calls, ticks and stopScan calls are interleaved.
C14_MessageIdsCountUp ==
    [][LET ids == MessageIdsOf(out')
       IN  /\ \A i \in DOMAIN ids : IsNumeral(ids[i]) /\ DecimalValue(ids[i]) = messageId + i
           /\ messageId' = messageId + Len(ids)]_vars

\* C14 witness: a sendMessage call, a tick and a stopScan have published
\* messages in turn, and the ids have reached two digits.
C14_Witness ==
    /\ messageId >= 10
    /\ stops > 0
    /\ step.act = "sendMessage.exec"
    /\ \E tk \in BagToSet(ticks) : tk.pc = "exec"
    /\ Len(MessageIdsOf(out)) >= 2

StructuresTable ==
    [reply \in AnalysisReplies |->
        {structure \in ReplyStructures : RenderTable[structure] = reply}]

\* The structures whose text is the reply.
StructuresOf(reply) == StructuresTable[reply]

\* The commands of the blocks of a structure, in source order.
BlockCommands(structure) ==
    [i \in DOMAIN structure.blocks |-> structure.blocks[i].command]

\* C15: when sendMessage has read a reply with N fenced blocks, untagged or
\* tagged bash or shell, the call ends having executed exactly N commands, each
\* the body of its block without the surrounding white space, in source order,
\* each to its end before the next one starts; with no block it executes none
\* and does not fail.
C15_ExecutesEachBlockOnce ==
    /\ (step.act \in SendSteps /\ step.ret # "pending" /\ step.llm = "content"
            /\ step.entered) =>
          \A structure \in StructuresOf(step.reply) :
              /\ step.ran = BlockCommands(structure)
              /\ structure.blocks = <<>> => step.ret = "ok"
    /\ step.act \in SendSteps =>
          \A i \in DOMAIN out :
              IsMessage(out[i], "system", "command") => i = Len(out)

\* The findings the detection rules are to report for the output of a command
\* of the code blocks, by title and in rule order.
ExpectedFindings ==
    [command \in {block.command : block \in CodeBlocks} |->
        CASE command = "sudo -l" -> <<"Sudo Privilege Escalation via find">>
          [] command = "echo NOPASSWD find uid=0(root)" ->
                <<"Sudo Privilege Escalation via find", "Root Access Achieved">>
          [] OTHER -> <<>>]

\* The last step of a sendMessage call published the result of a command to
\* every subscriber and went on to analyzeCommandResult.
AnalysedResult ==
    /\ step.act = "sendMessage.exec"
    /\ out # <<>>
    /\ IsMessage(out[1], "system", "result")
    /\ out[1].called = out[1].subs

\* The command and the output of the result message the events o begin with.
ResultCommand(o) == (CHOOSE m \in o[1].event.metadata : TRUE).command

ResultExitCode(o) == (CHOOSE m \in o[1].event.metadata : TRUE).exitCode

ResultOutput(o) == o[1].event.content.arg

\* The findings of the detection rules among the events o, in order.
RuleFindings(o) ==
    LET found == SelectSeq(o, LAMBDA ev : ev.event.kind = "vulnerability"
                                          /\ ev.event.vulnerability.category # "Analysis")
    IN  [i \in DOMAIN found |-> found[i].event.vulnerability]

\* C16: analyzeCommandResult publishes one vulnerability for each detection rule
\* whose pattern matches the output, in rule order and without stopping at the
\* first match, each with the evidence [command, output]; none when no rule
\* matches.
C16_OneFindingPerMatchingRule ==
    AnalysedResult =>
        LET findings == RuleFindings(out)
            expected == ExpectedFindings[ResultCommand(out)]
        IN  /\ Len(findings) = Len(expected)
            /\ \A i \in DOMAIN findings :
                  /\ findings[i].title = expected[i]
                  /\ findings[i].evidence = <<ResultCommand(out), ResultOutput(out)>>

\* C17: the command "id" has the output "uid=1001(user) gid=1001(user)
\* groups=1001(user)", the exit code 0 and no finding; an output that contains
\* "uid=0(root)" has exactly one finding 'Root Access Achieved', of severity
\* critical.
C17_IdAndRootExamples ==
    AnalysedResult =>
        LET findings == RuleFindings(out)
            root == {i \in DOMAIN findings : findings[i].title = "Root Access Achieved"}
        IN  /\ ResultCommand(out) = "id" =>
                  /\ ResultOutput(out) = "uid=1001(user) gid=1001(user) groups=1001(user)"
                  /\ ResultExitCode(out) = 0
                  /\ findings = <<>>
            /\ includes(ResultOutput(out), "uid=0(root)") =>
                  /\ Cardinality(root) = 1
                  /\ \A i \in root : findings[i].severity = "critical"

\* The last step of a sendMessage call ran analyzeAIResponse up to the keyword
\* search of detectVulnerabilitiesFromResponse, on the reply of the structure.
KeywordsSearched(structure) ==
    /\ step.act \in SendSteps
    /\ step.ret # "pending"
    /\ step.llm = "content"
    /\ step.entered
    /\ structure \in StructuresOf(step.reply)
    /\ Len(step.ran) = Len(structure.blocks)

\* The findings of the keyword search among the events o, in order.
AnalysisFindings(o) ==
    LET found == SelectSeq(o, LAMBDA ev : ev.event.kind = "vulnerability"
                                          /\ ev.event.vulnerability.category = "Analysis")
    IN  [i \in DOMAIN found |-> found[i].event.vulnerability]

ConcernsPrefix == "AI analysis suggests potential security concerns: "

\* C18: the keyword search publishes one finding of severity medium and category
\* 'Analysis' when the lower-cased reply contains a keyword of the vocabulary,
\* and none otherwise; the description lists each keyword found once, in
\* vocabulary order, and the evidence is the whole reply.
C18_OneAnalysisFindingPerReply ==
    \A structure \in (IF step.act \in SendSteps THEN StructuresOf(step.reply) ELSE {}) :
        KeywordsSearched(structure) =>
            LET findings == AnalysisFindings(out)
            IN  IF structure.prose.concerns = "" THEN findings = <<>>
                ELSE /\ Len(findings) = 1
                     /\ findings[1].severity = "medium"
                     /\ findings[1].description = ConcernsPrefix \o structure.prose.concerns
                     /\ findings[1].evidence = <<step.reply>>

\* C18 witness: the search has run after two commands on a reply that names
\* keywords in both cases, one of them twice, in another order than the
\* vocabulary.
C18_Witness ==
    \E structure \in (IF step.act \in SendSteps THEN StructuresOf(step.reply) ELSE {}) :
        /\ KeywordsSearched(structure)
        /\ structure.prose.concerns = "exploit, xss, csrf"
        /\ Len(structure.blocks) = 2
        /\ Len(AnalysisFindings(out)) = 1

SqlInjectionReply == "This looks like a classic SQL injection and privilege escalation issue."

\* The keyword search has run on the reply of the example.
ExampleSearched ==
    /\ step.act = "sendMessage.response"
    /\ step.llm = "content"
    /\ step.entered
    /\ step.reply = SqlInjectionReply

\* C19: for the reply "This looks like a classic SQL injection and privilege
\* escalation issue." the keyword search publishes one finding of severity
\* medium whose description lists the keywords as
\* "sql injection, privilege escalation".
C19_ExampleListsSqlInjectionFirst ==
    ExampleSearched =>
        /\ Len(AnalysisFindings(out)) = 1
        /\ AnalysisFindings(out)[1].severity = "medium"
        /\ AnalysisFindings(out)[1].description
              = ConcernsPrefix \o "sql injection, privilege escalation"

\* C19 amended: for that reply the keyword search publishes one finding of
\* severity medium whose description lists the keywords in vocabulary order,
\* "privilege escalation, sql injection".
C19_ExampleListsInVocabularyOrder ==
    ExampleSearched =>
        /\ Len(AnalysisFindings(out)) = 1
        /\ AnalysisFindings(out)[1].severity = "medium"
        /\ AnalysisFindings(out)[1].description
              = ConcernsPrefix \o "privilege escalation, sql injection"

\* C19 witness: the search has run on the reply of the example and its finding
\* went to a subscriber.
C19_Witness ==
    /\ ExampleSearched
    /\ step.ret = "ok"
    /\ Len(AnalysisFindings(out)) = 1
    /\ out[Len(out)].called # <<>>

\* C20: simulateCommandExecution resolves with exit code 0 for every command:
\* with the output of the table for each of its seven keys and with "Command
\* '<command>' executed successfully" for every other command.
C20_SimulationNeverFails ==
    (step.act = "sendMessage.exec" /\ out # <<>> /\ IsMessage(out[1], "system", "result")) =>
        /\ ResultExitCode(out) = 0
        /\ ResultOutput(out) =
              IF ResultCommand(out) \in SimulationKeys
              THEN simulations[ResultCommand(out)]
              ELSE "Command '" \o ResultCommand(out) \o "' executed successfully"

\* The number of entries of the list with the severity.
Entries(vulnerabilities, severity) ==
    Cardinality({i \in DOMAIN vulnerabilities : vulnerabilities[i].severity = severity})

\* C21: exportReport builds a summary whose total is the length of the list and
\* whose critical, high, medium and low are the numbers of entries of that
\* severity, so that total is their sum; the report carries the list unchanged;
\* nothing is published; for the empty list the five counts are 0.
C21_ReportCountsBySeverity ==
    [][step'.act = "exportReport" =>
          LET report == step'.download
              summary == report.summary
          IN  /\ summary.total = Len(step'.input)
              /\ \A severity \in Severities :
                    summary[severity] = Entries(step'.input, severity)
              /\ summary.total = summary.critical + summary.high + summary.medium + summary.low
              /\ report.vulnerabilities = step'.input
              /\ step'.input = <<>> =>
                    summary = [total |-> 0, critical |-> 0, high |-> 0, medium |-> 0, low |-> 0]
              /\ out' = <<>>
              /\ UNCHANGED progVars]_vars

\* C21 witness: a report of three vulnerabilities, two of them of one severity,
\* exported from a service that has subscribers.
C21_Witness ==
    /\ step.act = "exportReport"
    /\ Len(step.input) = 3
    /\ step.download.summary.critical = 2
    /\ step.download.summary.medium = 1
    /\ Registrations = 3

\* The events o are one status delta and nothing else.
OneStatus(o, status) ==
    /\ Len(o) = 1
    /\ o[1].event = [kind |-> "status", status |-> status]

\* C22: when the LLM request of testConnection is answered with status 200,
\* testConnection returns true and publishes {connected:true} if host, username,
\* hostname and one of password and keyfilename are non-empty, and returns
\* false and publishes {connected:false} otherwise: one status delta per call.
C22_ConnectedIffRequiredFields ==
    /\ (step.act = "testConnection.response" /\ step.llm = "ok") =>
          IF config.host /\ config.username /\ config.hostname
                /\ (config.password \/ config.keyfilename)
          THEN step.ret = "pending" /\ out = <<>>
          ELSE step.ret = "false" /\ OneStatus(out, [connected |-> FALSE])
    /\ step.act = "testConnection.ssh" =>
          step.ret = "true" /\ OneStatus(out, [connected |-> TRUE])

\* The positions of the events o that are assistant messages.
AssistantMessages(o) == {i \in DOMAIN o : IsMessage(o[i], "assistant", "text")}

\* C23: a sendMessage call whose request succeeded publishes one assistant
\* message of type 'text' with the reply as content, ahead of every command
\* message, result message and vulnerability of the analysis of the reply, and
\* no other; the finding of the keyword search comes last, after every command
\* of the reply has been executed to its end.
C23_AssistantFirstKeywordsLast ==
    (step.act \in SendSteps /\ step.llm = "content") =>
        /\ step.act = "sendMessage.response" =>
              /\ AssistantMessages(out) = {1}
              /\ out[1].event.content.arg = step.reply
        /\ step.act = "sendMessage.exec" => AssistantMessages(out) = {}
        /\ \A i \in DOMAIN out :
              (out[i].event.kind = "vulnerability"
                    /\ out[i].event.vulnerability.category = "Analysis") =>
                 /\ i = Len(out)
                 /\ step.ret # "pending"
                 /\ \A structure \in StructuresOf(step.reply) :
                       step.ran = BlockCommands(structure)

\* C23 witness: a sendMessage call has returned after two commands, the second
\* with a finding of the detection rules, and the finding of the keyword search.
C23_Witness ==
    /\ step.act = "sendMessage.exec"
    /\ step.ret = "ok"
    /\ Len(step.ran) = 2
    /\ Len(RuleFindings(out)) >= 1
    /\ Len(AnalysisFindings(out)) = 1
    /\ out[Len(out)].event.kind = "vulnerability"

\* The steps that post a request to the LLM endpoint.
Requesting(s) ==
    s.act \in {"testConnection", "sendMessage", "tick"} /\ s.ret = "pending"

\* C24: onConfigurationUpdate(cfg) stores cfg, posts no request and publishes
\* nothing; no other step changes the configuration; and every request of
\* testConnection, of sendMessage and of a tick, also of a scan started under
\* another configuration, goes to api_url followed by api_path of the stored
\* configuration, with its model and its api_key as bearer token.
C24_RequestsFollowConfiguration ==
    [][/\ step'.act = "onConfigurationUpdate" =>
              /\ config' = step'.cfg
              /\ out' = <<>>
              /\ UNCHANGED <<listeners, scanInterval, messageId, timers, ticks, sends, tests>>
       /\ step'.act # "onConfigurationUpdate" => config' = config
       /\ Requesting(step') =>
              /\ step'.request.url = config'.llm.api_url \o config'.llm.api_path
              /\ step'.request.model = config'.llm.model
              /\ step'.request.authorization = "Bearer " \o config'.llm.api_key]_vars

\* C24 witness: a tick of a scan started under the configuration of the mounted
\* App posts its request after two other configurations have been saved, the
\* last one with an empty api_url and an empty api_key.
C24_Witness ==
    /\ Requesting(step)
    /\ step.act = "tick"
    /\ scanLog[step.timer].config = MountedConfig
    /\ scanLog[step.timer].executed >= 1
    /\ config.llm = BlankLlm
    /\ step.request.url = "/api/chat"
    /\ step.request.authorization = "Bearer "

\* C25: every request to the LLM endpoint, of testConnection, of sendMessage and
\* of a tick, has the client timeout api_timeout seconds of the configuration.
C25_TimeoutIsApiTimeout ==
    Requesting(step) => step.request.timeout = config.llm.api_timeout * 1000

\* C26: every status delta published holds only the fields its operation
\* changed: {scanning:true, lastScan} from startAutomaticScan, {scanning:false}
\* from stopScan (called by a caller or by an exhausted tick), {connected} from
\* testConnection; vulnerabilitiesFound is never published.
C26_StatusDeltasHoldChangedFields ==
    \A i \in DOMAIN out :
        out[i].event.kind = "status" =>
            LET status == out[i].event.status
            IN  \/ /\ DOMAIN status = {"scanning", "lastScan"}
                   /\ status.scanning = TRUE
                   /\ step.act = "startAutomaticScan"
                \/ /\ DOMAIN status = {"scanning"}
                   /\ status.scanning = FALSE
                   /\ step.act \in {"stopScan", "tick"}
                \/ /\ DOMAIN status = {"connected"}
                   /\ status.connected \in BOOLEAN
                   /\ step.act \in TestSteps

\* C26 witness: the exhausted tick of a scan has published {scanning:false}
\* after a testConnection call published {connected:true} under a saved
\* configuration.
C26_Witness ==
    /\ step.act = "tick"
    /\ step.ret = "stopped"
    /\ StopOutput(out)
    /\ HasRequiredFields(config)
    /\ scanLog[1].executed = Len(scanCommands)

\* The events o from position i on are the findings of the detection rules,
\* each followed by its vulnerability message.
FindingsFrom(o, i) ==
    \A j \in i..Len(o) :
        IF (j - i) % 2 = 0
        THEN o[j].event.kind = "vulnerability"
        ELSE IsMessage(o[j], "system", "vulnerability")

\* C27: startAutomaticScan publishes {scanning:true, lastScan}, then the message
\* 'Starting automatic security scan...', in a step that runs no tick; a tick that
\* finds a command at the cursor publishes the advisory message (assistant text,
\* or system error when the request failed), the command message, the result
\* message, then the findings for the result; the cursor moves only after all
\* of these, by one.
C27_ScanEventsInOrder ==
    [][/\ step'.act = "startAutomaticScan" =>
              /\ Len(out') = 2
              /\ out'[1].event.kind = "status"
              /\ DOMAIN out'[1].event.status = {"scanning", "lastScan"}
              /\ out'[1].event.status.scanning = TRUE
              /\ IsMessage(out'[2], "system", "text")
              /\ out'[2].event.content.tag = "Starting automatic security scan..."
              /\ ticks' = ticks
       /\ step'.act = "tick.advisory" =>
              /\ step'.ret = "pending"
              /\ Len(out') = 2
              /\ IF step'.advice = "ok" THEN IsMessage(out'[1], "assistant", "text")
                 ELSE IsMessage(out'[1], "system", "error")
              /\ IsMessage(out'[2], "system", "command")
              /\ out'[2].event.content.arg = scanCommands[step'.index + 1]
              /\ timers' = timers
       /\ step'.act = "tick.exec" =>
              /\ step'.ret = "done"
              /\ Len(out') >= 1
              /\ IsMessage(out'[1], "system", "result")
              /\ FindingsFrom(out', 2)
              /\ timers' = IncrementIndex(timers, step'.timer)]_vars

\* C28: after finitely many startAutomaticScan and stopScan calls, with every
\* request answered, every command resolved and the timers firing, the service
\* reaches a state without a live timer and stays without one.
C28_EveryScanEnds == <>[](LiveTimers = {})

TickSteps == {"tick", "tick.advisory", "tick.exec"}

\* The commands of the command messages among the events o, in order.
CommandsStarted(o) ==
    LET started == SelectSeq(o, LAMBDA ev : IsMessage(ev, "system", "command"))
    IN  [i \in DOMAIN started |-> started[i].event.content.arg]

\* C29: the text of the model never drives a scripted scan: every tick that
\* finds a command at the cursor executes that command and no other, whatever
\* code blocks and keywords the advisory reply holds, and no step of a tick
\* publishes an 'Analysis' finding.
C29_ScanIgnoresAdvisoryText ==
    [][/\ step'.act = "tick.advisory" =>
              /\ step'.index = timers[step'.timer].commandIndex
              /\ CommandsStarted(out') = <<scanCommands[step'.index + 1]>>
              /\ step'.ret = "pending"
       /\ step'.act = "tick.exec" =>
              /\ CommandsStarted(out') = <<>>
              /\ IsMessage(out'[1], "system", "result")
              /\ ResultCommand(out') = scanCommands[step'.index + 1]
       /\ step'.act \in TickSteps =>
              /\ AnalysisFindings(out') = <<>>
              /\ step'.act # "tick.advisory" => CommandsStarted(out') = <<>>]_vars

\* The scan of timer t has run to its end: an exhausted tick has stopped it.
Completed(t) ==
    /\ t \in DOMAIN scanLog
    /\ scanLog[t].exhausted >= 1
    /\ ~timers[t].live

\* C30: a scan that has run to its end, its ticks one after the other and no
\* sendMessage call under way, has published one vulnerability in all: 'Sudo
\* Privilege Escalation via find', of severity high, for the step 'sudo -l'; and
\* a step that is no key of the simulations table has the output "Command
\* '<step>' executed successfully" and no finding.
C30_CompletedScanHasOneFinding ==
    /\ Completed(1) =>
          /\ Len(scanLog[1].findings) = 1
          /\ scanLog[1].findings[1].title = "Sudo Privilege Escalation via find"
          /\ scanLog[1].findings[1].severity = "high"
          /\ scanLog[1].findings[1].evidence[1] = "sudo -l"
    /\ (step.act = "tick.exec" /\ scanCommands[step.index + 1] \notin SimulationKeys) =>
          /\ ResultOutput(out)
                = "Command '" \o scanCommands[step.index + 1] \o "' executed successfully"
          /\ ResultExitCode(out) = 0
          /\ Published(out) = <<>>

\* C30 witness: the scan has run its ten steps and its exhausted tick, with a
\* callback registered late for vulnerabilities.
C30_Witness ==
    /\ Completed(1)
    /\ scanLog[1].executed = Len(scanCommands)
    /\ scanLog[1].findings # <<>>
    /\ Len(listeners.onVulnerabilityFound) > 1
    /\ step.act = "tick"

-----------------------------------------------------------------------------
\* The ids of the Vulnerability records among the events o, in order.
VulnerabilityIds(o) ==
    LET found == SelectSeq(o, LAMBDA ev : ev.event.kind = "vulnerability")
    IN  [i \in DOMAIN found |-> found[i].event.id]

\* C31: any two distinct Vulnerability records the service emits carry
\* different ids, also two findings raised by different rules on the same
\* command output and findings emitted at the same reading of the clock.
\* Stated for the records one step emits.
C31_VulnerabilityIdsDiffer ==
    \A i, j \in DOMAIN VulnerabilityIds(out) :
        i # j => VulnerabilityIds(out)[i] # VulnerabilityIds(out)[j]
-----------------------------------------------------------------------------
\* The steps in which executeCommand is called.
ExecuteCommandSteps == {"tick.advisory", "sendMessage.response", "sendMessage.exec"}

\* C32: once onConfigurationUpdate has been called the configuration is never
\* absent again: no step resets it, no call fails with NotConfigured after
\* it, and executeCommand is only called with a configuration set, from
\* sendMessage and from a scan tick, so that no interval callback ends at
\* executeCommand's early return.
C32_ConfigurationStaysSet ==
    [][/\ config.set => config'.set
       /\ config.set => step'.ret # "NotConfigured"
       /\ step'.act \in ExecuteCommandSteps => config.set /\ config'.set
       /\ step'.act = "tick.advisory" => step'.ret # "done"]_vars

\* C32 witness: in a service constructed without configuration, one has been
\* handed in since, and a command of a reply is being executed by sendMessage
\* while a scan is running and has published messages.
C32_Witness ==
    /\ config = Cfg(TRUE, FALSE, TRUE, FALSE, TRUE, BlankLlm)
    /\ step.act = "sendMessage.response" /\ step.ret = "pending"
    /\ LiveTimers # {}
    /\ messageId >= 5
-----------------------------------------------------------------------------
\* C33: the App appends each ChatMessage the service emits exactly once to its
\* message list, and each Vulnerability exactly once to its list, adding
\* exactly one to vulnerabilitiesFound, however many times the configuration
\* has been saved before.
C33_AppAppendsEachEventOnce ==
    \A i \in DOMAIN out :
        out[i].event.kind \in {"message", "vulnerability"} => Appended(out[i]) = 1
-----------------------------------------------------------------------------
\* The metadata of a published message.
MetadataOf(ev) == CHOOSE m \in ev.event.metadata : TRUE

\* Event ev is the message of the given type about command c.
IsAbout(ev, type, c) ==
    /\ IsMessage(ev, "system", type)
    /\ ev.event.metadata # {}
    /\ MetadataOf(ev).command = c

\* The commands executeCommand is called with under SpecCommands.
ExecutedCommands ==
    {scanCommands[i] : i \in DOMAIN scanCommands}
        \cup UNION {{Commands(reply)[i] : i \in DOMAIN Commands(reply)} :
                        reply \in CommandReplies}

\* The commands whose executeCommand call waits for the simulator.
Simulating ==
    {scanCommands[tk.index + 1] : tk \in {t \in BagToSet(ticks) : t.pc = "exec"}}
        \cup {Commands(s.reply)[s.k] : s \in {t \in BagToSet(sends) : t.pc = "exec"}}

\* What a step publishes about the commands: at most one 'result' message, for
\* a command whose 'command' message was published and that waits for the
\* simulator, with exit code 0; the findings of the rules on a command after
\* the 'result' message of that command.
ResultsInOrder ==
    /\ Cardinality({i \in DOMAIN out' : IsMessage(out'[i], "system", "result")}) <= 1
    /\ \A i \in DOMAIN out' :
          IsMessage(out'[i], "system", "result") =>
              /\ MetadataOf(out'[i]).command \in Simulating
              /\ MetadataOf(out'[i]).exitCode = 0
    /\ \A j \in DOMAIN out' :
          (out'[j].event.kind = "vulnerability"
              /\ out'[j].event.vulnerability.category = "Privilege Escalation") =>
                \E i \in 1..(j - 1) :
                    IsAbout(out'[i], "result", out'[j].event.vulnerability.evidence[1])

\* C34: every message of type 'command' is eventually followed by exactly one
\* message of type 'result' with the same metadata.command and exit code 0;
\* a vulnerability raised for the command is emitted after its result
\* message; no 'result' message is emitted without an earlier 'command'
\* message for the command; under any interleaving of sendMessage calls, scan
\* ticks and stopScan.
C34_CommandThenOneResult ==
    /\ [][ResultsInOrder]_vars
    /\ \A c \in ExecutedCommands :
          (\E i \in DOMAIN out : IsAbout(out[i], "command", c))
              ~> (\E i \in DOMAIN out : IsAbout(out[i], "result", c))
-----------------------------------------------------------------------------
\* Event ev is a finding of a detection rule.
IsRuleFinding(ev) ==
    ev.event.kind = "vulnerability" /\ ev.event.vulnerability.category = "Privilege Escalation"

\* C35: each finding of a rule is followed at once, with no event in between,
\* by one system message of type 'vulnerability' that names the title of the
\* rule, and the 'Analysis' finding of the keyword search by no message: the
\* 'vulnerability' messages emitted are as many as the rule findings emitted.
\* Stated for the events of each step.
C35_RuleFindingThenItsMessage ==
    /\ \A i \in DOMAIN out :
          IsRuleFinding(out[i]) =>
              /\ i + 1 \in DOMAIN out
              /\ IsMessage(out[i + 1], "system", "vulnerability")
              /\ out[i + 1].event.content.arg = out[i].event.vulnerability.title
    /\ \A j \in DOMAIN out :
          IsMessage(out[j], "system", "vulnerability") =>
              j - 1 \in DOMAIN out /\ IsRuleFinding(out[j - 1])
    /\ Cardinality({i \in DOMAIN out : IsRuleFinding(out[i])})
          = Cardinality({j \in DOMAIN out : IsMessage(out[j], "system", "vulnerability")})
====
